---- MODULE Spec2Model ----
(***************************************************************************)
(* Model of the appleseed render engine integration of blenderseed         *)
(* (render/__init__.py): the RenderAppleseed engine object, its session    *)
(* fields, the RenderThread worker, the process-wide preview renderer and  *)
(* the render pass tables.                                                 *)
(*                                                                         *)
(* The host calls the engine's callbacks from its single main thread.  A   *)
(* callback is modelled as a sequence of steps of that thread (hpc is its  *)
(* position in the code); a RenderThread is a second process whose only    *)
(* step is the return of renderer.render().                                *)
(*                                                                         *)
(* Spec is the program with its collaborators (scene translator, preview   *)
(* renderer, controllers, tile callbacks, MasterRenderer, Thread) behaving *)
(* as their interfaces say: their calls return normally.  The exceptions   *)
(* the code of this module raises itself (a failed assert, an attribute of *)
(* None) are part of Spec.  PassSpec is update_render_passes alone, over   *)
(* every combination of the AOV flags.                                     *)
(***************************************************************************)
EXTENDS Integers, Sequences, FiniteSets, TLC

\* ---------------------------------------------------------------- bounds
NumEngines == 2        \* engine instances the host may create
MaxRenderers == 2      \* MasterRenderer constructions per engine instance
MaxOrphans == 2        \* alive threads per engine that no handle refers to

Engines == 1..NumEngines

\* Python's None, as a value comparable with the objects below.
NONE == [kind |-> "None"]

\* An argument the call does not take.
ABSENT == "-"

\* ------------------------------------------------------------- AOV tables
AOVFlags ==
    {"diffuse_aov", "direct_diffuse_aov", "indirect_diffuse_aov", "glossy_aov",
     "direct_glossy_aov", "indirect_glossy_aov", "albedo_aov", "emission_aov",
     "npr_shading_aov", "npr_contour_aov", "normal_aov", "uv_aov", "depth_aov",
     "pixel_time_aov", "invalid_samples_aov", "pixel_sample_count_aov",
     "pixel_variation_aov"}

Pass(flag, name, channels, chan_id, type) ==
    [flag |-> flag, name |-> name, channels |-> channels, chan_id |-> chan_id,
     type |-> type]

\* The conditional register_pass calls of update_render_passes, in code order.
RegisterTable ==
    << Pass("diffuse_aov", "Diffuse", 4, "RGBA", "COLOR"),
       Pass("direct_diffuse_aov", "Direct Diffuse", 4, "RGBA", "COLOR"),
       Pass("indirect_diffuse_aov", "Indirect Diffuse", 4, "RGBA", "COLOR"),
       Pass("glossy_aov", "Glossy", 4, "RGBA", "COLOR"),
       Pass("direct_glossy_aov", "Direct Glossy", 4, "RGBA", "COLOR"),
       Pass("indirect_glossy_aov", "Indirect Glossy", 4, "RGBA", "COLOR"),
       Pass("albedo_aov", "Albedo", 4, "RGBA", "COLOR"),
       Pass("emission_aov", "Emission", 4, "RGBA", "COLOR"),
       Pass("npr_shading_aov", "NPR Shading", 4, "RGBA", "COLOR"),
       Pass("npr_contour_aov", "NPR Contour", 4, "RGBA", "COLOR"),
       Pass("normal_aov", "Normal", 3, "RGB", "VECTOR"),
       Pass("uv_aov", "UV", 3, "RGB", "VECTOR"),
       Pass("depth_aov", "Z Depth", 1, "Z", "VALUE"),
       Pass("pixel_time_aov", "Pixel Time", 1, "X", "VALUE"),
       Pass("invalid_samples_aov", "Invalid Samples", 3, "RGB", "VECTOR"),
       Pass("pixel_sample_count_aov", "Pixel Sample Count", 3, "RGB", "VECTOR"),
       Pass("pixel_variation_aov", "Pixel Variation", 3, "RGB", "VECTOR") >>

\* The conditional add_pass calls of __add_render_passes, in code order
\* (add_pass takes no type argument).
AddTable ==
    << Pass("diffuse_aov", "Diffuse", 4, "RGBA", ABSENT),
       Pass("direct_diffuse_aov", "Direct Diffuse", 4, "RGBA", ABSENT),
       Pass("indirect_diffuse_aov", "Indirect Diffuse", 4, "RGBA", ABSENT),
       Pass("glossy_aov", "Glossy", 4, "RGBA", ABSENT),
       Pass("direct_glossy_aov", "Direct Glossy", 4, "RGBA", ABSENT),
       Pass("indirect_glossy_aov", "Indirect Glossy", 4, "RGBA", ABSENT),
       Pass("normal_aov", "Normal", 3, "RGB", ABSENT),
       Pass("uv_aov", "UV", 3, "RGB", ABSENT),
       Pass("depth_aov", "Z Depth", 1, "Z", ABSENT),
       Pass("pixel_time_aov", "Pixel Time", 1, "X", ABSENT),
       Pass("invalid_samples_aov", "Invalid Samples", 3, "RGB", ABSENT),
       Pass("pixel_sample_count_aov", "Pixel Sample Count", 3, "RGB", ABSENT),
       Pass("pixel_variation_aov", "Pixel Variation", 3, "RGB", ABSENT),
       Pass("albedo_aov", "Albedo", 4, "RGBA", ABSENT),
       Pass("emission_aov", "Emission", 4, "RGBA", ABSENT),
       Pass("npr_shading_aov", "NPR Shading", 4, "RGBA", ABSENT),
       Pass("npr_contour_aov", "NPR Contour", 4, "RGBA", ABSENT) >>

CombinedPass == Pass(ABSENT, "Combined", 4, "RGBA", "COLOR")

\* The rows of a table whose flag is set, in table order: one `if flag: call`
\* statement per row.
EnabledRows(table, flags) ==
    SelectSeq(table, LAMBDA row : row.flag \in flags)

\* Mutant: the passes are registered for a preview render too.
update_render_passes_in_preview(is_preview, flags) ==
    <<CombinedPass>> \o EnabledRows(RegisterTable, flags)

\* register_pass calls made by update_render_passes(scene, renderlayer).
update_render_passes(is_preview, flags) ==
    IF ~is_preview
    THEN <<CombinedPass>> \o EnabledRows(RegisterTable, flags)
    ELSE << >>

\* Mutant: the Albedo pass is never added.
add_render_passes_without_albedo(flags) ==
    EnabledRows(AddTable, flags \ {"albedo_aov"})

\* add_pass calls made by __add_render_passes(scene).
add_render_passes(flags) == EnabledRows(AddTable, flags)


\* ------------------------------------------------- the material schemas
\* A bpy.props declaration.  Numbers are written in hundredths (1.0 is 100);
\* default, min, max and soft_max hold the number of the keyword, and are
\* empty when the declaration has no such keyword or the keyword is no
\* number; update is the name of the hook, ABSENT when there is none.
Prop(type, name, default, min, max, soft_max, update) ==
    [type |-> type, name |-> name, default |-> default, min |-> min,
     max |-> max, soft_max |-> soft_max, update |-> update]

FloatProperty(name, default, min, max, soft_max, update) ==
    Prop("FloatProperty", name, default, min, max, soft_max, update)
IntProperty(name, default, min, max, soft_max, update) ==
    Prop("IntProperty", name, default, min, max, soft_max, update)
FloatVectorProperty(name, min, max, update) ==
    Prop("FloatVectorProperty", name, {}, min, max, {}, update)
BoolProperty(name, update) == Prop("BoolProperty", name, {}, {}, {}, {}, update)
StringProperty(name, update) == Prop("StringProperty", name, {}, {}, {}, {}, update)
EnumProperty(name, update) == Prop("EnumProperty", name, {}, {}, {}, {}, update)
CollectionProperty(name, update) ==
    Prop("CollectionProperty", name, {}, {}, {}, {}, update)

\* The identifiers of the items of bsdf_type: the layer kinds.
bsdf_type_items ==
    <<"ashikhmin_brdf", "blinn_brdf", "diffuse_btdf", "disney_brdf",
      "glass_bsdf", "glossy_brdf", "kelemen_brdf", "lambertian_brdf",
      "metal_brdf", "orennayar_brdf", "plastic_brdf", "sheen_brdf",
      "specular_btdf", "specular_brdf">>

\* class AppleseedMatLayerProps(bpy.types.PropertyGroup): its properties in
\* the order of declaration.
AppleseedMatLayerProps ==
    <<
        StringProperty("bsdf_name", "refresh_preview"),
        EnumProperty("bsdf_type", "refresh_preview"),
        FloatProperty("diffuse_btdf_transmittance_multiplier", {100}, {0},
            {200}, {}, "refresh_preview"),
        BoolProperty("diffuse_btdf_transmittance_use_mult_tex",
            "refresh_preview"),
        StringProperty("diffuse_btdf_transmittance_mult_tex",
            "refresh_preview"),
        FloatVectorProperty("diffuse_btdf_transmittance_color", {0}, {100},
            "refresh_preview"),
        BoolProperty("diffuse_btdf_use_diff_tex", "refresh_preview"),
        StringProperty("diffuse_btdf_diff_tex", "refresh_preview"),
        FloatProperty("diffuse_btdf_weight", {100}, {0}, {100}, {},
            "refresh_preview"),
        BoolProperty("diffuse_btdf_use_tex", "refresh_preview"),
        StringProperty("diffuse_btdf_mix_tex", "refresh_preview"),
        FloatVectorProperty("kelemen_brdf_matte_reflectance", {0}, {100},
            "refresh_preview"),
        BoolProperty("kelemen_brdf_use_diff_tex", "refresh_preview"),
        StringProperty("kelemen_brdf_diff_tex", "refresh_preview"),
        FloatProperty("kelemen_brdf_matte_multiplier", {100}, {0}, {100}, {},
            "refresh_preview"),
        FloatProperty("kelemen_brdf_roughness", {0}, {0}, {100}, {},
            "refresh_preview"),
        FloatVectorProperty("kelemen_brdf_specular_reflectance", {0}, {100},
            "refresh_preview"),
        BoolProperty("kelemen_brdf_use_spec_tex", "refresh_preview"),
        StringProperty("kelemen_brdf_spec_tex", "refresh_preview"),
        FloatProperty("kelemen_brdf_specular_multiplier", {100}, {0}, {100},
            {}, "refresh_preview"),
        FloatProperty("kelemen_brdf_weight", {100}, {0}, {100}, {},
            "refresh_preview"),
        BoolProperty("kelemen_brdf_use_tex", "refresh_preview"),
        StringProperty("kelemen_brdf_mix_tex", "refresh_preview"),
        FloatVectorProperty("ashikhmin_brdf_reflectance", {0}, {100},
            "refresh_preview"),
        BoolProperty("ashikhmin_brdf_use_diff_tex", "refresh_preview"),
        StringProperty("ashikhmin_brdf_diffuse_tex", "refresh_preview"),
        FloatProperty("ashikhmin_brdf_multiplier", {100}, {0}, {100}, {},
            "refresh_preview"),
        FloatProperty("ashikhmin_brdf_fresnel", {100}, {0}, {200}, {},
            "refresh_preview"),
        FloatVectorProperty("ashikhmin_brdf_glossy", {0}, {100},
            "refresh_preview"),
        BoolProperty("ashikhmin_brdf_use_gloss_tex", "refresh_preview"),
        StringProperty("ashikhmin_brdf_gloss_tex", "refresh_preview"),
        FloatProperty("ashikhmin_brdf_glossy_multiplier", {100}, {0}, {100},
            {}, "refresh_preview"),
        FloatProperty("ashikhmin_brdf_shininess_u", {20000}, {0}, {100000},
            {}, "refresh_preview"),
        FloatProperty("ashikhmin_brdf_shininess_v", {20000}, {0}, {100000},
            {}, "refresh_preview"),
        FloatProperty("ashikhmin_brdf_weight", {100}, {0}, {100}, {},
            "refresh_preview"),
        BoolProperty("ashikhmin_brdf_use_tex", "refresh_preview"),
        StringProperty("ashikhmin_brdf_mix_tex", "refresh_preview"),
        FloatProperty("blinn_brdf_exponent", {80}, {0}, {}, {},
            "refresh_preview"),
        BoolProperty("blinn_brdf_exponent_use_tex", "refresh_preview"),
        StringProperty("blinn_brdf_exponent_tex", "refresh_preview"),
        FloatProperty("blinn_brdf_ior", {150}, {100}, {250}, {},
            "refresh_preview"),
        FloatProperty("blinn_brdf_weight", {100}, {0}, {100}, {},
            "refresh_preview"),
        BoolProperty("blinn_brdf_use_tex", "refresh_preview"),
        StringProperty("blinn_brdf_mix_tex", "refresh_preview"),
        EnumProperty("glass_bsdf_mdf", "refresh_preview"),
        FloatVectorProperty("glass_bsdf_surface_transmittance", {0}, {100},
            "refresh_preview"),
        BoolProperty("glass_bsdf_surface_transmittance_use_tex",
            "refresh_preview"),
        StringProperty("glass_bsdf_surface_transmittance_tex",
            "refresh_preview"),
        FloatProperty("glass_bsdf_surface_transmittance_multiplier", {100},
            {0}, {100}, {}, "refresh_preview"),
        BoolProperty("glass_bsdf_surface_transmittance_multiplier_use_tex",
            "refresh_preview"),
        StringProperty("glass_bsdf_surface_transmittance_multiplier_tex",
            "refresh_preview"),
        FloatVectorProperty("glass_bsdf_reflection_tint", {0}, {100},
            "refresh_preview"),
        BoolProperty("glass_bsdf_reflection_tint_use_tex", "refresh_preview"),
        StringProperty("glass_bsdf_reflection_tint_tex", "refresh_preview"),
        FloatVectorProperty("glass_bsdf_refraction_tint", {0}, {100},
            "refresh_preview"),
        BoolProperty("glass_bsdf_refraction_tint_use_tex", "refresh_preview"),
        StringProperty("glass_bsdf_refraction_tint_tex", "refresh_preview"),
        FloatProperty("glass_bsdf_ior", {150}, {100}, {250}, {},
            "refresh_preview"),
        FloatProperty("glass_bsdf_roughness", {15}, {0}, {100}, {},
            "refresh_preview"),
        BoolProperty("glass_bsdf_roughness_use_tex", "refresh_preview"),
        StringProperty("glass_bsdf_roughness_tex", "refresh_preview"),
        FloatProperty("glass_bsdf_highlight_falloff", {40}, {0}, {100}, {},
            "refresh_preview"),
        FloatProperty("glass_bsdf_anisotropy", {0}, {-100}, {100}, {},
            "refresh_preview"),
        BoolProperty("glass_bsdf_anisotropy_use_tex", "refresh_preview"),
        StringProperty("glass_bsdf_anisotropy_tex", "refresh_preview"),
        EnumProperty("glass_bsdf_volume_parameterization", "refresh_preview"),
        FloatVectorProperty("glass_bsdf_volume_transmittance", {0}, {100},
            "refresh_preview"),
        BoolProperty("glass_bsdf_volume_transmittance_use_tex",
            "refresh_preview"),
        StringProperty("glass_bsdf_volume_transmittance_tex",
            "refresh_preview"),
        FloatProperty("glass_bsdf_volume_transmittance_distance", {0}, {0},
            {1000}, {}, "refresh_preview"),
        BoolProperty("glass_bsdf_volume_transmittance_distance_use_tex",
            "refresh_preview"),
        StringProperty("glass_bsdf_volume_transmittance_distance_tex",
            "refresh_preview"),
        FloatVectorProperty("glass_bsdf_volume_absorption", {0}, {100},
            "refresh_preview"),
        BoolProperty("glass_bsdf_volume_absorption_use_tex", "refresh_preview"),
        StringProperty("glass_bsdf_volume_absorption_tex", "refresh_preview"),
        FloatProperty("glass_bsdf_volume_density", {0}, {0}, {}, {1000},
            "refresh_preview"),
        BoolProperty("glass_bsdf_volume_density_use_tex", "refresh_preview"),
        StringProperty("glass_bsdf_volume_density_tex", "refresh_preview"),
        FloatProperty("glass_bsdf_volume_scale", {100}, {0}, {}, {1000},
            "refresh_preview"),
        FloatProperty("glass_bsdf_weight", {100}, {0}, {100}, {},
            "refresh_preview"),
        BoolProperty("glass_bsdf_use_tex", "refresh_preview"),
        StringProperty("glass_bsdf_mix_tex", "refresh_preview"),
        EnumProperty("metal_brdf_mdf", "refresh_preview"),
        FloatVectorProperty("metal_brdf_normal_reflectance", {0}, {100},
            "refresh_preview"),
        BoolProperty("metal_brdf_normal_reflectance_use_tex",
            "refresh_preview"),
        StringProperty("metal_brdf_normal_reflectance_tex", "refresh_preview"),
        FloatVectorProperty("metal_brdf_edge_tint", {0}, {100},
            "refresh_preview"),
        BoolProperty("metal_brdf_edge_tint_use_tex", "refresh_preview"),
        StringProperty("metal_brdf_edge_tint_tex", "refresh_preview"),
        FloatProperty("metal_brdf_reflectance_multiplier", {100}, {0}, {100},
            {}, "refresh_preview"),
        BoolProperty("metal_brdf_reflectance_multiplier_use_tex",
            "refresh_preview"),
        StringProperty("metal_brdf_reflectance_multiplier_tex",
            "refresh_preview"),
        FloatProperty("metal_brdf_roughness", {15}, {0}, {100}, {},
            "refresh_preview"),
        BoolProperty("metal_brdf_roughness_use_tex", "refresh_preview"),
        StringProperty("metal_brdf_roughness_tex", "refresh_preview"),
        FloatProperty("metal_brdf_highlight_falloff", {40}, {0}, {100}, {},
            "refresh_preview"),
        FloatProperty("metal_brdf_anisotropy", {0}, {-100}, {100}, {},
            "refresh_preview"),
        BoolProperty("metal_brdf_anisotropy_use_tex", "refresh_preview"),
        StringProperty("metal_brdf_anisotropy_tex", "refresh_preview"),
        FloatProperty("metal_brdf_weight", {100}, {0}, {100}, {},
            "refresh_preview"),
        BoolProperty("metal_brdf_use_tex", "refresh_preview"),
        StringProperty("metal_brdf_mix_tex", "refresh_preview"),
        EnumProperty("plastic_brdf_mdf", "refresh_preview"),
        FloatVectorProperty("plastic_brdf_specular_reflectance", {0}, {100},
            "refresh_preview"),
        BoolProperty("plastic_brdf_specular_reflectance_use_tex",
            "refresh_preview"),
        StringProperty("plastic_brdf_specular_reflectance_tex",
            "refresh_preview"),
        FloatProperty("plastic_brdf_specular_reflectance_multiplier", {100},
            {0}, {100}, {}, "refresh_preview"),
        BoolProperty("plastic_brdf_specular_reflectance_multiplier_use_tex",
            "refresh_preview"),
        StringProperty("plastic_brdf_specular_reflectance_multiplier_tex",
            "refresh_preview"),
        FloatProperty("plastic_brdf_roughness", {15}, {0}, {100}, {},
            "refresh_preview"),
        BoolProperty("plastic_brdf_roughness_use_tex", "refresh_preview"),
        StringProperty("plastic_brdf_roughness_tex", "refresh_preview"),
        FloatProperty("plastic_brdf_highlight_falloff", {40}, {0}, {100}, {},
            "refresh_preview"),
        FloatProperty("plastic_brdf_ior", {150}, {100}, {250}, {},
            "refresh_preview"),
        FloatVectorProperty("plastic_brdf_diffuse_reflectance", {0}, {100},
            "refresh_preview"),
        BoolProperty("plastic_brdf_diffuse_reflectance_use_tex",
            "refresh_preview"),
        StringProperty("plastic_brdf_diffuse_reflectance_tex",
            "refresh_preview"),
        FloatProperty("plastic_brdf_diffuse_reflectance_multiplier", {100},
            {0}, {100}, {}, "refresh_preview"),
        BoolProperty("plastic_brdf_diffuse_reflectance_multiplier_use_tex",
            "refresh_preview"),
        StringProperty("plastic_brdf_diffuse_reflectance_multiplier_tex",
            "refresh_preview"),
        FloatProperty("plastic_brdf_internal_scattering", {100}, {0}, {100},
            {}, "refresh_preview"),
        FloatProperty("plastic_brdf_weight", {100}, {0}, {100}, {},
            "refresh_preview"),
        BoolProperty("plastic_brdf_use_tex", "refresh_preview"),
        StringProperty("plastic_brdf_mix_tex", "refresh_preview"),
        FloatVectorProperty("lambertian_brdf_reflectance", {0}, {100},
            "refresh_preview"),
        FloatProperty("lambertian_brdf_multiplier", {100}, {0}, {200}, {},
            "refresh_preview"),
        FloatProperty("lambertian_brdf_weight", {100}, {0}, {100}, {},
            "refresh_preview"),
        BoolProperty("lambertian_brdf_use_diff_tex", "refresh_preview"),
        StringProperty("lambertian_brdf_diffuse_tex", "refresh_preview"),
        BoolProperty("lambertian_brdf_use_tex", "refresh_preview"),
        StringProperty("lambertian_brdf_mix_tex", "refresh_preview"),
        FloatProperty("orennayar_brdf_multiplier", {100}, {0}, {200}, {},
            "refresh_preview"),
        BoolProperty("orennayar_brdf_use_diff_tex", "refresh_preview"),
        FloatVectorProperty("orennayar_brdf_reflectance", {0}, {100},
            "refresh_preview"),
        StringProperty("orennayar_brdf_diffuse_tex", "refresh_preview"),
        FloatProperty("orennayar_brdf_roughness", {50}, {0}, {100}, {},
            "refresh_preview"),
        BoolProperty("orennayar_brdf_use_rough_tex", "refresh_preview"),
        StringProperty("orennayar_brdf_rough_tex", "refresh_preview"),
        FloatProperty("orennayar_brdf_weight", {100}, {0}, {100}, {},
            "refresh_preview"),
        BoolProperty("orennayar_brdf_use_tex", "refresh_preview"),
        StringProperty("orennayar_brdf_mix_tex", "refresh_preview"),
        FloatVectorProperty("specular_brdf_reflectance", {0}, {100},
            "refresh_preview"),
        BoolProperty("specular_brdf_use_gloss_tex", "refresh_preview"),
        StringProperty("specular_brdf_gloss_tex", "refresh_preview"),
        FloatProperty("specular_brdf_multiplier", {100}, {0}, {100}, {},
            "refresh_preview"),
        FloatProperty("specular_brdf_weight", {100}, {0}, {100}, {},
            "refresh_preview"),
        BoolProperty("specular_brdf_use_tex", "refresh_preview"),
        StringProperty("specular_brdf_mix_tex", "refresh_preview"),
        FloatVectorProperty("sheen_brdf_reflectance", {0}, {100},
            "refresh_preview"),
        BoolProperty("sheen_brdf_reflectance_use_tex", "refresh_preview"),
        StringProperty("sheen_brdf_reflectance_tex", "refresh_preview"),
        FloatProperty("sheen_brdf_reflectance_multiplier", {100}, {0}, {100},
            {}, "refresh_preview"),
        BoolProperty("sheen_brdf_reflectance_multiplier_use_tex",
            "refresh_preview"),
        StringProperty("sheen_brdf_reflectance_multiplier_tex",
            "refresh_preview"),
        FloatProperty("sheen_brdf_weight", {100}, {0}, {100}, {},
            "refresh_preview"),
        BoolProperty("sheen_brdf_use_tex", "refresh_preview"),
        StringProperty("sheen_brdf_mix_tex", "refresh_preview"),
        EnumProperty("glossy_brdf_mdf", "refresh_preview"),
        FloatVectorProperty("glossy_brdf_reflectance", {0}, {100},
            "refresh_preview"),
        BoolProperty("glossy_brdf_reflectance_use_tex", "refresh_preview"),
        StringProperty("glossy_brdf_reflectance_tex", "refresh_preview"),
        FloatProperty("glossy_brdf_reflectance_multiplier", {100}, {0}, {100},
            {}, "refresh_preview"),
        BoolProperty("glossy_brdf_reflectance_multiplier_use_tex",
            "refresh_preview"),
        StringProperty("glossy_brdf_reflectance_multiplier_tex",
            "refresh_preview"),
        FloatProperty("glossy_brdf_roughness", {15}, {0}, {100}, {},
            "refresh_preview"),
        BoolProperty("glossy_brdf_roughness_use_tex", "refresh_preview"),
        StringProperty("glossy_brdf_roughness_tex", "refresh_preview"),
        FloatProperty("glossy_brdf_highlight_falloff", {40}, {0}, {100}, {},
            "refresh_preview"),
        FloatProperty("glossy_brdf_anisotropy", {0}, {-100}, {100}, {},
            "refresh_preview"),
        BoolProperty("glossy_brdf_anisotropy_use_tex", "refresh_preview"),
        StringProperty("glossy_brdf_anisotropy_tex", "refresh_preview"),
        FloatProperty("glossy_brdf_ior", {150}, {100}, {250}, {},
            "refresh_preview"),
        FloatProperty("glossy_brdf_weight", {100}, {0}, {100}, {},
            "refresh_preview"),
        BoolProperty("glossy_brdf_use_tex", "refresh_preview"),
        StringProperty("glossy_brdf_mix_tex", "refresh_preview"),
        FloatVectorProperty("specular_btdf_reflectance", {0}, {100},
            "refresh_preview"),
        BoolProperty("specular_btdf_use_spec_tex", "refresh_preview"),
        StringProperty("specular_btdf_spec_tex", "refresh_preview"),
        FloatProperty("specular_btdf_refl_mult", {100}, {0}, {100}, {},
            "refresh_preview"),
        FloatVectorProperty("specular_btdf_transmittance", {0}, {100},
            "refresh_preview"),
        BoolProperty("specular_btdf_use_trans_tex", "refresh_preview"),
        StringProperty("specular_btdf_trans_tex", "refresh_preview"),
        FloatProperty("specular_btdf_trans_mult", {100}, {0}, {100}, {},
            "refresh_preview"),
        FloatProperty("specular_btdf_fresnel_multiplier", {100}, {0}, {100},
            {}, "refresh_preview"),
        BoolProperty("specular_btdf_fresnel_multiplier_use_tex",
            "refresh_preview"),
        StringProperty("specular_btdf_fresnel_multiplier_tex",
            "refresh_preview"),
        FloatProperty("specular_btdf_ior", {133}, {100}, {250}, {},
            "refresh_preview"),
        FloatProperty("specular_btdf_volume_density", {0}, {0}, {1000}, {},
            "refresh_preview"),
        FloatProperty("specular_btdf_volume_scale", {0}, {0}, {1000}, {},
            "refresh_preview"),
        FloatProperty("specular_btdf_weight", {100}, {0}, {100}, {},
            "refresh_preview"),
        BoolProperty("specular_btdf_use_tex", "refresh_preview"),
        StringProperty("specular_btdf_mix_tex", "refresh_preview"),
        FloatVectorProperty("disney_brdf_base", {0}, {100}, "refresh_preview"),
        BoolProperty("disney_brdf_use_base_tex", "refresh_preview"),
        StringProperty("disney_brdf_base_tex", "refresh_preview"),
        FloatProperty("disney_brdf_aniso", {0}, {0}, {}, {100},
            "refresh_preview"),
        BoolProperty("disney_brdf_use_aniso_tex", "refresh_preview"),
        StringProperty("disney_brdf_aniso_tex", "refresh_preview"),
        FloatProperty("disney_brdf_clearcoat", {0}, {0}, {}, {1000},
            "refresh_preview"),
        BoolProperty("disney_brdf_use_clearcoat_tex", "refresh_preview"),
        StringProperty("disney_brdf_clearcoat_tex", "refresh_preview"),
        FloatProperty("disney_brdf_clearcoat_gloss", {100}, {0}, {}, {100},
            "refresh_preview"),
        BoolProperty("disney_brdf_use_clearcoat_gloss_tex", "refresh_preview"),
        StringProperty("disney_brdf_clearcoat_gloss_tex", "refresh_preview"),
        FloatProperty("disney_brdf_metallic", {0}, {0}, {}, {100},
            "refresh_preview"),
        BoolProperty("disney_brdf_use_metallic_tex", "refresh_preview"),
        StringProperty("disney_brdf_metallic_tex", "refresh_preview"),
        FloatProperty("disney_brdf_roughness", {50}, {0}, {}, {100},
            "refresh_preview"),
        BoolProperty("disney_brdf_use_roughness_tex", "refresh_preview"),
        StringProperty("disney_brdf_roughness_tex", "refresh_preview"),
        FloatProperty("disney_brdf_sheen", {0}, {0}, {}, {100},
            "refresh_preview"),
        BoolProperty("disney_brdf_use_sheen_brdf_tex", "refresh_preview"),
        StringProperty("disney_brdf_sheen_brdf_tex", "refresh_preview"),
        FloatProperty("disney_brdf_sheen_brdf_tint", {50}, {0}, {}, {100},
            "refresh_preview"),
        BoolProperty("disney_brdf_use_sheen_brdf_tint_tex", "refresh_preview"),
        StringProperty("disney_brdf_sheen_brdf_tint_tex", "refresh_preview"),
        FloatProperty("disney_brdf_spec", {50}, {0}, {}, {100},
            "refresh_preview"),
        BoolProperty("disney_brdf_use_spec_tex", "refresh_preview"),
        StringProperty("disney_brdf_spec_tex", "refresh_preview"),
        FloatProperty("disney_brdf_spec_tint", {0}, {0}, {}, {100},
            "refresh_preview"),
        BoolProperty("disney_brdf_use_spec_tint_tex", "refresh_preview"),
        StringProperty("disney_brdf_spec_tint_tex", "refresh_preview"),
        FloatProperty("disney_brdf_subsurface", {0}, {0}, {}, {100},
            "refresh_preview"),
        BoolProperty("disney_brdf_use_subsurface_tex", "refresh_preview"),
        StringProperty("disney_brdf_subsurface_tex", "refresh_preview"),
        FloatProperty("disney_brdf_weight", {100}, {0}, {100}, {},
            "refresh_preview"),
        BoolProperty("disney_brdf_use_tex", "refresh_preview"),
        StringProperty("disney_brdf_mix_tex", "refresh_preview")
    >>

\* class AppleseedMatProps(bpy.types.PropertyGroup): its properties in the
\* order of declaration.
AppleseedMatProps ==
    <<
        CollectionProperty("layers", ABSENT),
        IntProperty("layer_index", {0}, {0}, {1600}, {}, "refresh_preview"),
        BoolProperty("use_light_emission", "refresh_preview"),
        FloatProperty("light_emission", {100}, {0}, {1000000}, {},
            "refresh_preview"),
        FloatVectorProperty("light_color", {0}, {100}, "refresh_preview"),
        FloatProperty("importance_multiplier", {100}, {0}, {10000}, {1000},
            "refresh_preview"),
        BoolProperty("cast_indirect", "refresh_preview"),
        FloatProperty("light_near_start", {0}, {0}, {1000}, {},
            "refresh_preview"),
        BoolProperty("material_use_bump_tex", "refresh_preview"),
        StringProperty("material_bump_tex", "refresh_preview"),
        BoolProperty("material_use_normalmap", "refresh_preview"),
        FloatProperty("material_bump_amplitude", {100}, {0}, {100}, {},
            "refresh_preview"),
        StringProperty("material_alpha_map", "refresh_preview"),
        BoolProperty("material_use_alpha", "refresh_preview"),
        FloatProperty("material_alpha", {100}, {0}, {100}, {},
            "refresh_preview"),
        IntProperty("preview_quality", {200}, {100}, {1600}, {},
            "refresh_preview"),
        StringProperty("node_tree", "refresh_preview"),
        StringProperty("node_output", "refresh_preview")
    >>

\* The properties of both schemas, each with the class that declares it.
Declared_in(cls, table) ==
    {[cls |-> cls, decl |-> table[i]] : i \in 1..Len(table)}

Properties ==
    Declared_in("AppleseedMatLayerProps", AppleseedMatLayerProps)
        \cup Declared_in("AppleseedMatProps", AppleseedMatProps)

\* The number a one-element set holds.
Only(S) == CHOOSE x \in S : TRUE

\* The value of a property nobody has assigned to.
Default(decl) == IF decl.default # {} THEN Only(decl.default) ELSE 0

\* The hard limits of a property: min= and max=.  soft_max= bounds the
\* slider of the user interface, not the value.
Lower(decl) == decl.min

\* Mutant: soft_max limits the value as max does.
Upper_Soft(decl) == IF decl.soft_max # {} THEN decl.soft_max ELSE decl.max

Upper(decl) == decl.max

\* Mutant: an assigned value is stored as it is.
Clamp_Keeps(v, lo, hi) == v

\* What a property with hard limits lo and hi stores when v is assigned.
Clamp(v, lo, hi) ==
    LET a == IF lo # {} /\ v < Only(lo) THEN Only(lo) ELSE v
    IN IF hi # {} /\ a > Only(hi) THEN Only(hi) ELSE a

Store(decl, v) == Clamp(v, Lower(decl), Upper(decl))

\* What a context says of its material or texture attribute: the context has
\* no such attribute, the attribute is None, or it is an object.
Presence == {"absent", "None", "object"}

Contexts == [material : Presence, texture : Presence]

NoContext == [material |-> "absent", texture |-> "absent"]

\* Mutant: the texture is looked at only when there is no material.
refresh_preview_elif(ctx, prt, tt) ==
    IF ctx.material # "absent" /\ ctx.material # "None"
    THEN <<"material.preview_render_type = " \o prt>>
    ELSE IF ctx.texture # "absent" /\ ctx.texture # "None"
         THEN <<"texture.type = " \o tt>>
         ELSE << >>

\* refresh_preview(self, context): the assignments it makes, in order, when
\* context.material.preview_render_type is prt and context.texture.type is tt.
refresh_preview(ctx, prt, tt) ==
    (IF ctx.material # "absent"
     THEN IF ctx.material # "None"
          THEN <<"material.preview_render_type = " \o prt>>
          ELSE << >>
     ELSE << >>)
    \o (IF ctx.texture # "absent"
        THEN IF ctx.texture # "None"
             THEN <<"texture.type = " \o tt>>
             ELSE << >>
        ELSE << >>)

\* The value an assignment of refresh_preview leaves in target, which held
\* old: the value of the last assignment to target among writes.
Written(target, values, writes, old) ==
    LET hits == {v \in values :
                    \E i \in 1..Len(writes) : writes[i] = target \o " = " \o v}
    IN IF hits = {} THEN old ELSE Only(hits)

\* Values of Material.preview_render_type and of Texture.type.
PreviewRenderTypes == {"FLAT", "SPHERE"}
TextureTypes == {"NONE", "IMAGE"}

\* The values the host assigns to a property, in hundredths.
EditValues == {-200, 0, 50, 100, 150, 1100}

\* ------------------------------------------------------------------ state
VARIABLES
    life,                          \* engine -> "unborn" | "live" | "deleted"
    renderer,                      \* engine -> self.__renderer
    renderer_controller,           \* engine -> self.__renderer_controller
    tile_callback,                 \* engine -> self.__tile_callback
    render_thread,                 \* engine -> self.__render_thread
    interactive_scene_translator,  \* engine -> self.__interactive_scene_translator
    orphans,                       \* engine -> alive RenderThreads no handle refers to
    made,                          \* engine -> objects constructed so far (history)
    preview_renderer,              \* module global _preview_renderer
    preview_calls,                 \* PreviewRenderer() / translate_preview calls and returns (history)
    log_targets,                   \* targets attached to asr.global_logger()
    background,                    \* bpy.app.background
    aov_flags,                     \* the flags set in scene.appleseed of the call
    added,                         \* add_pass calls of the last render()
    registered,                    \* register_pass calls of the last update_render_passes()
    hop,                           \* host callback in progress
    heng,                          \* engine it runs on
    hpc,                           \* position of the host thread in the code
    harg,                          \* inputs of the callback
    result,                        \* outcome of the last callback
    trace,                         \* calls made by the last callback, in order
    entry,                         \* engine state when the last callback was entered
    classes,                       \* classes registered with bpy.utils, oldest first
    material_appleseed,            \* bpy.types.Material.appleseed
    prop,                          \* the schema property whose value is followed
    stored,                        \* its stored value, in hundredths
    assigned,                      \* the value last assigned to it, in hundredths
    context,                       \* the context handed to its update hook
    preview_render_type,           \* context.material.preview_render_type
    texture_type,                  \* context.texture.type
    tpc,                           \* engine -> position of a concurrent preview job
    calling                        \* engine -> call of its job on _preview_renderer

session == <<renderer, renderer_controller, tile_callback, render_thread,
             interactive_scene_translator>>
history == <<made, preview_calls>>
passes == <<added, registered>>
host == <<hop, heng, hpc, harg, result, trace, entry>>
engine == <<life, session, orphans, history, preview_renderer, log_targets,
            background, aov_flags, passes>>
materials == <<classes, material_appleseed, prop, stored, assigned, context,
               preview_render_type, texture_type>>
jobs == <<tpc, calling>>
vars == <<engine, host, materials, jobs>>

\* The scenes of the engine specification: no AOV enabled, two AOVs enabled.
SceneChoices == { {}, {"normal_aov", "albedo_aov"} }

NoArg == [is_preview |-> FALSE, view_update |-> FALSE, camera_update |-> FALSE]

NoMade == [translator |-> 0, translate_scene |-> 0, controller |-> 0,
           tile_callback |-> 0, renderer |-> 0]

\* The fields of engine e and the process-wide state, as a record.
Snapshot(e) ==
    [renderer |-> renderer[e],
     renderer_controller |-> renderer_controller[e],
     tile_callback |-> tile_callback[e],
     render_thread |-> render_thread[e],
     interactive_scene_translator |-> interactive_scene_translator[e],
     made |-> made[e],
     preview_renderer |-> preview_renderer,
     preview_calls |-> preview_calls,
     log_targets |-> log_targets]

NoEntry ==
    [renderer |-> NONE, renderer_controller |-> NONE, tile_callback |-> NONE,
     render_thread |-> NONE, interactive_scene_translator |-> NONE,
     made |-> NoMade, preview_renderer |-> NONE,
     preview_calls |-> [ctor |-> 0, translate_preview |-> 0, translated |-> 0], log_targets |-> 0]

\* threading.Thread.isAlive() of the thread the handle of e refers to.
isAlive(e) == render_thread[e] # NONE /\ render_thread[e].alive

\* RenderThreads created by engine e that are executing renderer.render().
AliveThreads(e) == orphans[e] + (IF isAlive(e) THEN 1 ELSE 0)

\* The add-on is enabled: register() of the material properties has run.
MaterialsLoaded ==
    /\ classes = <<"AppleseedMatLayerProps", "AppleseedMatProps">>
    /\ material_appleseed = [kind |-> "PointerProperty", type |-> "AppleseedMatProps"]
    /\ prop = [cls |-> "AppleseedMatLayerProps", decl |-> AppleseedMatLayerProps[1]]
    /\ stored = Default(prop.decl)
    /\ assigned = stored
    /\ context = NoContext
    /\ preview_render_type = "SPHERE"
    /\ texture_type = "NONE"

\* The engine state of every specification's initial condition.
InitEngine ==
    /\ life = [e \in Engines |-> "unborn"]
    /\ renderer = [e \in Engines |-> NONE]
    /\ renderer_controller = [e \in Engines |-> NONE]
    /\ tile_callback = [e \in Engines |-> NONE]
    /\ render_thread = [e \in Engines |-> NONE]
    /\ interactive_scene_translator = [e \in Engines |-> NONE]
    /\ orphans = [e \in Engines |-> 0]
    /\ made = [e \in Engines |-> NoMade]
    /\ preview_renderer = NONE
    /\ preview_calls = [ctor |-> 0, translate_preview |-> 0, translated |-> 0]
    /\ log_targets = 0
    /\ aov_flags = {}
    /\ added = << >>
    /\ registered = << >>
    /\ hop = "none"
    /\ heng = 1
    /\ hpc = "idle"
    /\ harg = NoArg
    /\ result = "none"
    /\ trace = << >>
    /\ entry = NoEntry
    /\ tpc = [e \in Engines |-> "idle"]
    /\ calling = [e \in Engines |-> "none"]

\* State shared by the initial conditions of the engine specifications.
InitCommon == InitEngine /\ MaterialsLoaded

Init ==
    /\ InitCommon
    /\ background \in BOOLEAN

\* ------------------------------------------------------------ host calls
\* The host enters callback op of engine e.
Enter(op, e, pc, arg) ==
    /\ hpc = "idle"
    /\ life[e] = "live"
    /\ hop' = op
    /\ heng' = e
    /\ hpc' = pc
    /\ harg' = arg
    /\ result' = "running"
    /\ trace' = << >>
    /\ entry' = Snapshot(e)

\* The callback returns to the host.
Return == hpc' = "returned" /\ result' = "ok"

\* The callback raises exc into the host.
Raise(exc) == hpc' = "returned" /\ result' = exc

\* The host goes on after a callback has returned or raised; what the model
\* remembers of the callback is forgotten, and so is a destroyed engine.
Resume ==
    /\ hpc = "returned"
    /\ hpc' = "idle"
    /\ hop' = "none"
    /\ heng' = 1
    /\ harg' = NoArg
    /\ result' = "none"
    /\ trace' = << >>
    /\ entry' = NoEntry
    /\ added' = << >>
    /\ aov_flags' = {}
    /\ registered' = << >>
    /\ IF life[heng] = "deleted" /\ orphans[heng] = 0
       THEN /\ life' = [life EXCEPT ![heng] = "unborn"]
            /\ made' = [made EXCEPT ![heng] = NoMade]
       ELSE UNCHANGED <<life, made>>
    /\ assigned' = stored
    /\ context' = NoContext
    /\ UNCHANGED <<session, orphans, preview_calls, preview_renderer,
                   log_targets, background, classes, material_appleseed, prop,
                   stored, preview_render_type, texture_type, jobs>>

Emit(events) == trace' = trace \o events

\* RenderAppleseed.__init__
Create(e) ==
    /\ hpc = "idle"
    /\ life[e] = "unborn"
    /\ \A d \in Engines : d < e => life[d] # "unborn"
    /\ orphans[e] = 0
    /\ life' = [life EXCEPT ![e] = "live"]
    /\ renderer' = [renderer EXCEPT ![e] = NONE]
    /\ renderer_controller' = [renderer_controller EXCEPT ![e] = NONE]
    /\ tile_callback' = [tile_callback EXCEPT ![e] = NONE]
    /\ render_thread' = [render_thread EXCEPT ![e] = NONE]

       /\ interactive_scene_translator' = [interactive_scene_translator EXCEPT ![e] = NONE]
    /\ UNCHANGED <<orphans, history, preview_renderer, log_targets,
                   background, materials, jobs,
                   aov_flags, passes, host>>

\* The host calls render(scene) with self.is_preview = p and a scene whose
\* enabled AOV flags are flags.
CallRender(e, p, flags) ==
    /\ made[e].renderer < MaxRenderers
    /\ Enter("render", e, "render", [NoArg EXCEPT !.is_preview = p])
    /\ added' = << >>
    /\ aov_flags' = flags
    /\ UNCHANGED <<life, session, orphans, history, preview_renderer,
                   log_targets,
                   background, materials, jobs, registered>>

\* The host calls view_update(context).
CallViewUpdate(e) ==
    /\ made[e].renderer < MaxRenderers
    /\ Enter("view_update", e, "view_update", NoArg)
    /\ UNCHANGED <<life, session, orphans, history, preview_renderer,
                   log_targets,
                   background, materials, jobs, aov_flags, passes>>

\* The host calls view_draw(context); vu, cu are what check_view will report.
CallViewDraw(e, vu, cu) ==
    /\ Enter("view_draw", e, "view_draw",
             [NoArg EXCEPT !.view_update = vu, !.camera_update = cu])
    /\ UNCHANGED <<life, session, orphans, history, preview_renderer,
                   log_targets,
                   background, materials, jobs, aov_flags, passes>>

\* The engine object is destroyed: __del__ runs __stop_rendering.
CallDel(e) ==
    /\ Enter("del", e, "stop_rendering", NoArg)
    /\ UNCHANGED <<life, session, orphans, history, preview_renderer,
                   log_targets,
                   background, materials, jobs, aov_flags, passes>>

\* The host calls update_render_passes(scene, renderlayer) with
\* self.is_preview = p and a scene whose enabled AOV flags are flags.
UpdateRenderPasses(e, p, flags) ==
    /\ hpc = "idle"
    /\ life[e] = "live"
    /\ aov_flags' = flags
    /\ registered' = update_render_passes(p, flags)
    /\ harg' = [NoArg EXCEPT !.is_preview = p]
    /\ hop' = "update_render_passes"
    /\ heng' = e
    /\ hpc' = "returned"
    /\ result' = "ok"
    /\ trace' = << >>
    /\ entry' = Snapshot(e)
    /\ UNCHANGED <<life, session, orphans, history, preview_renderer,
                   log_targets,
                   background, materials, jobs, added>>

\* __add_render_passes(scene) on its own, for a scene whose enabled AOV flags
\* are flags (render() calls it first thing in a final render).
AddRenderPasses(e, flags) ==
    /\ hpc = "idle"
    /\ life[e] = "live"
    /\ aov_flags' = flags
    /\ added' = add_render_passes(flags)
    /\ harg' = NoArg
    /\ hop' = "add_render_passes"
    /\ heng' = e
    /\ hpc' = "returned"
    /\ result' = "ok"
    /\ trace' = << >>
    /\ entry' = Snapshot(e)
    /\ UNCHANGED <<life, session, orphans, history, preview_renderer,
                   log_targets,
                   background, materials, jobs, registered>>

\* ------------------------------------------------------------ host steps
\* The host thread moves on inside the callback.
Goto(pc) == hpc' = pc /\ UNCHANGED result

\* What a step inside a callback never changes.
StepFrame == UNCHANGED <<hop, heng, harg, entry, background, materials, jobs,
                         aov_flags, registered>>

\* (The scene translator's own state lives outside this module of the
\* program: update_scene and update_view show in the trace.)

\* Mutant: the preview path does not test bpy.app.background.
Render_IgnoresBackground ==
    /\ hpc = "render"
    /\ IF ~harg.is_preview
       THEN /\ added' = add_render_passes(aov_flags)
            /\ Emit(<<"add_render_passes">>)
            /\ Goto("render_final")
       ELSE /\ UNCHANGED <<added, trace>>
            /\ Goto("render_material_preview")
    /\ StepFrame
    /\ UNCHANGED <<life, session, orphans, history, preview_renderer, log_targets>>

\* render(self, scene)
Render ==
    /\ hpc = "render"
    /\ IF ~harg.is_preview
       THEN /\ added' = add_render_passes(aov_flags)
            /\ Emit(<<"add_render_passes">>)
            /\ Goto("render_final")
       ELSE /\ UNCHANGED added
            /\ IF ~background
               THEN Goto("render_material_preview") /\ UNCHANGED trace
               ELSE Return /\ UNCHANGED trace
    /\ StepFrame
    /\ UNCHANGED <<life, session, orphans, history, preview_renderer, log_targets>>

\* Mutant: the preview renderer is a local of the call, built every time.
RenderMaterialPreview_AlwaysNew ==
    /\ hpc = "render_material_preview"
    /\ preview_renderer' = [kind |-> "PreviewRenderer"]
    /\ preview_calls' = [ctor |-> preview_calls.ctor + 1,
                         translate_preview |-> preview_calls.translate_preview + 1,
                         translated |-> preview_calls.translated + 1]
    /\ Emit(<<"PreviewRenderer", "translate_preview">>)
    /\ Goto("start_final_render")
    /\ StepFrame
    /\ UNCHANGED <<life, session, orphans, made, log_targets, added>>

\* __render_material_preview(self, scene), up to the call of __start_final_render
RenderMaterialPreview ==
    /\ hpc = "render_material_preview"
    /\ IF preview_renderer = NONE
       THEN /\ preview_renderer' = [kind |-> "PreviewRenderer"]
            /\ preview_calls' = [ctor |-> preview_calls.ctor + 1,
                                 translate_preview |-> preview_calls.translate_preview + 1,
                                 translated |-> preview_calls.translated + 1]
            /\ Emit(<<"PreviewRenderer", "translate_preview">>)
       ELSE /\ UNCHANGED <<preview_renderer, preview_calls>>
            /\ Emit(<<"update_preview">>)
    /\ Goto("start_final_render")
    /\ StepFrame
    /\ UNCHANGED <<life, session, orphans, made, log_targets, added>>

\* __render_material_preview when the first translate_preview raises: the
\* global already refers to the new PreviewRenderer.
TranslatePreviewFails ==
    /\ hpc = "render_material_preview"
    /\ preview_renderer = NONE
    /\ preview_renderer' = [kind |-> "PreviewRenderer"]
    /\ preview_calls' = [ctor |-> preview_calls.ctor + 1,
                         translate_preview |-> preview_calls.translate_preview + 1,
                         translated |-> preview_calls.translated]
    /\ Emit(<<"PreviewRenderer", "translate_preview raises">>)
    /\ Raise("TranslationError")
    /\ StepFrame
    /\ UNCHANGED <<life, session, orphans, made, log_targets, added>>

\* __render_final(self, scene), up to the call of __start_final_render
RenderFinal ==
    /\ hpc = "render_final"
    /\ Emit(<<"create_final_render_translator", "translate_scene">>)
    /\ Goto("start_final_render")
    /\ StepFrame
    /\ UNCHANGED <<life, session, orphans, history, preview_renderer, log_targets, added>>

\* Threads of e left alive without a handle when the handle is dropped or
\* overwritten.
Dropped(e) == orphans[e] + (IF isAlive(e) THEN 1 ELSE 0)

\* Mutant: the assertions are not evaluated.
FinalPreconditions_Unchecked(e) == TRUE

\* The four assertions opening __start_final_render.
FinalPreconditions(e) ==
    /\ renderer[e] = NONE
    /\ renderer_controller[e] = NONE
    /\ tile_callback[e] = NONE
    /\ render_thread[e] = NONE

\* Mutant: the console log target is attached once the thread runs.
FinalStartCalls_LogsLate ==
    <<"FinalRendererController", "FinalTileCallback", "MasterRenderer",
      "RenderThread", "thread.start", "add_target">>

\* The calls of __start_final_render between its assertions and its polling
\* loop, in the order of the code.
FinalStartCalls ==
    <<"FinalRendererController", "FinalTileCallback", "MasterRenderer",
      "RenderThread", "add_target", "thread.start">>

\* __start_final_render(self, scene, project), up to the polling loop
StartFinalRender ==
    /\ hpc = "start_final_render"
    /\ LET e == heng
           r == [kind |-> "MasterRenderer", config |-> "final",
                 id |-> made[e].renderer + 1]
       IN IF ~FinalPreconditions(e)
          THEN /\ Raise("AssertionError")
               /\ UNCHANGED <<session, orphans, made, log_targets, trace>>
          ELSE /\ renderer_controller' = [renderer_controller EXCEPT ![e] =
                      [kind |-> "FinalRendererController", status |-> "Initial"]]
               /\ tile_callback' = [tile_callback EXCEPT ![e] =
                      [kind |-> "FinalTileCallback"]]
               /\ renderer' = [renderer EXCEPT ![e] = r]
               /\ Dropped(e) <= MaxOrphans
               /\ orphans' = [orphans EXCEPT ![e] = Dropped(e)]
               /\ render_thread' = [render_thread EXCEPT ![e] =
                      [kind |-> "RenderThread", renderer |-> r, alive |-> TRUE]]
               /\ made' = [made EXCEPT ![e].controller = @ + 1,
                                       ![e].tile_callback = @ + 1,
                                       ![e].renderer = @ + 1]
               /\ log_targets' = log_targets + 1
               /\ Emit(FinalStartCalls)
               /\ Goto("poll")
               /\ UNCHANGED interactive_scene_translator
    /\ StepFrame
    /\ UNCHANGED <<life, preview_renderer, preview_calls, added>>

\* __start_final_render when the MasterRenderer constructor raises: the
\* controller and the tile callback are already assigned, the exception
\* leaves render() and nothing is cleaned up.
StartFinalRenderFails ==
    /\ hpc = "start_final_render"
    /\ FinalPreconditions(heng)
    /\ LET e == heng
       IN /\ renderer_controller' = [renderer_controller EXCEPT ![e] =
                 [kind |-> "FinalRendererController", status |-> "Initial"]]
          /\ tile_callback' = [tile_callback EXCEPT ![e] =
                 [kind |-> "FinalTileCallback"]]
          /\ made' = [made EXCEPT ![e].controller = @ + 1,
                                  ![e].tile_callback = @ + 1]
    /\ Emit(<<"FinalRendererController", "FinalTileCallback", "MasterRenderer">>)
    /\ Raise("RendererError")
    /\ StepFrame
    /\ UNCHANGED <<life, renderer, render_thread, interactive_scene_translator,
                   orphans, preview_renderer, preview_calls, log_targets, added>>

\* Mutant: the host waits for one join(0.5) and goes on, alive or not.
PollExit_NoWait ==
    /\ hpc = "poll"
    /\ log_targets' = log_targets - 1
    /\ Emit(<<"remove_target">>)
    /\ Goto("stop_rendering")
    /\ StepFrame
    /\ UNCHANGED <<life, session, orphans, history, preview_renderer, added>>

\* `while self.__render_thread.isAlive(): self.__render_thread.join(0.5)` is
\* left, and the log target removed.
PollExit ==
    /\ hpc = "poll"
    /\ ~isAlive(heng)
    /\ log_targets' = log_targets - 1
    /\ Emit(<<"remove_target">>)
    /\ Goto("stop_rendering")
    /\ StepFrame
    /\ UNCHANGED <<life, session, orphans, history, preview_renderer, added>>

\* Mutant: the try block signals the controller without testing the handle.
SignalAbort_NoHandleTest(e, join_pc, after_pc) ==
    IF renderer_controller[e] # NONE
    THEN /\ renderer_controller' = [renderer_controller EXCEPT ![e].status =
                "AbortRendering"]
         /\ Emit(<<"set_status(AbortRendering)">>)
         /\ Goto(join_pc)
    ELSE /\ UNCHANGED <<renderer_controller, trace>>
         /\ Goto(after_pc)

\* The try block of __pause_rendering and __stop_rendering up to join():
\* `if self.__render_thread: controller.set_status(AbortRendering)`.  With a
\* thread but no controller the attribute error is swallowed by `except: pass`.
SignalAbort(e, join_pc, after_pc) ==
    IF render_thread[e] # NONE
    THEN IF renderer_controller[e] # NONE
         THEN /\ renderer_controller' = [renderer_controller EXCEPT ![e].status =
                     "AbortRendering"]
              /\ Emit(<<"set_status(AbortRendering)">>)
              /\ Goto(join_pc)
         ELSE /\ UNCHANGED <<renderer_controller, trace>>
              /\ Goto(after_pc)
    ELSE /\ UNCHANGED <<renderer_controller, trace>>
         /\ Goto(after_pc)

\* Mutant: join() returns without waiting for the thread.
Joined_NoWait(e) == TRUE

\* self.__render_thread.join() returns: the thread is not alive.
Joined(e) == ~isAlive(e)

\* Mutant: __stop_rendering goes straight to its cleanup.
StopSignal_NoAbort ==
    /\ hpc = "stop_rendering"
    /\ Goto("stop_cleanup")
    /\ StepFrame
    /\ UNCHANGED <<life, session, orphans, history, preview_renderer, log_targets,
                   added, trace>>

\* __stop_rendering: signal
StopSignal ==
    /\ hpc = "stop_rendering"
    /\ SignalAbort(heng, "stop_join", "stop_cleanup")
    /\ StepFrame
    /\ UNCHANGED <<life, renderer, tile_callback, render_thread,
                   interactive_scene_translator, orphans, history,
                   preview_renderer, log_targets, added>>

\* __stop_rendering: join
StopJoin ==
    /\ hpc = "stop_join"
    /\ Joined(heng)
    /\ Emit(<<"join">>)
    /\ Goto("stop_cleanup")
    /\ StepFrame
    /\ UNCHANGED <<life, session, orphans, history, preview_renderer, log_targets,
                   added>>

\* Mutant: the cleanup forgets the scene translator as well.
StopCleanup_DropsTranslator ==
    /\ hpc = "stop_cleanup"
    /\ LET e == heng
       IN /\ Dropped(e) <= MaxOrphans
          /\ orphans' = [orphans EXCEPT ![e] = Dropped(e)]
          /\ render_thread' = [render_thread EXCEPT ![e] = NONE]
          /\ renderer' = [renderer EXCEPT ![e] = NONE]
          /\ renderer_controller' = [renderer_controller EXCEPT ![e] = NONE]
          /\ tile_callback' = [tile_callback EXCEPT ![e] = NONE]
          /\ interactive_scene_translator' =
                 [interactive_scene_translator EXCEPT ![e] = NONE]
          /\ life' = IF hop = "del" THEN [life EXCEPT ![e] = "deleted"] ELSE life
    /\ Return
    /\ StepFrame
    /\ UNCHANGED <<history, preview_renderer, log_targets, added, trace>>

\* Mutant: the cleanup clears the thread handle alone, as a pause does.
StopCleanup_KeepsSession ==
    /\ hpc = "stop_cleanup"
    /\ LET e == heng
       IN /\ Dropped(e) <= MaxOrphans
          /\ orphans' = [orphans EXCEPT ![e] = Dropped(e)]
          /\ render_thread' = [render_thread EXCEPT ![e] = NONE]
          /\ life' = IF hop = "del" THEN [life EXCEPT ![e] = "deleted"] ELSE life
    /\ Return
    /\ StepFrame
    /\ UNCHANGED <<renderer, renderer_controller, tile_callback,
                   interactive_scene_translator, history, preview_renderer,
                   log_targets, added, trace>>

\* __stop_rendering: the cleanup assignments, and the return to render() or
\* the end of __del__.
StopCleanup ==
    /\ hpc = "stop_cleanup"
    /\ LET e == heng
       IN /\ Dropped(e) <= MaxOrphans
          /\ orphans' = [orphans EXCEPT ![e] = Dropped(e)]
          /\ render_thread' = [render_thread EXCEPT ![e] = NONE]
          /\ renderer' = [renderer EXCEPT ![e] = NONE]
          /\ renderer_controller' = [renderer_controller EXCEPT ![e] = NONE]
          /\ tile_callback' = [tile_callback EXCEPT ![e] = NONE]
          /\ life' = IF hop = "del" THEN [life EXCEPT ![e] = "deleted"] ELSE life
    /\ Return
    /\ StepFrame
    /\ UNCHANGED <<interactive_scene_translator, history, preview_renderer,
                   log_targets, added, trace>>


\* __pause_rendering: signal
PauseSignal ==
    /\ hpc = "pause_rendering"
    /\ SignalAbort(heng, "pause_join", "pause_clear")
    /\ StepFrame
    /\ UNCHANGED <<life, renderer, tile_callback, render_thread,
                   interactive_scene_translator, orphans, history,
                   preview_renderer, log_targets, added>>

\* __pause_rendering: join
PauseJoin ==
    /\ hpc = "pause_join"
    /\ Joined(heng)
    /\ Emit(<<"join">>)
    /\ Goto("pause_clear")
    /\ StepFrame
    /\ UNCHANGED <<life, session, orphans, history, preview_renderer, log_targets,
                   added>>

\* Mutant: a pause leaves the thread handle as it is.
PauseClear_KeepsHandle ==
    /\ hpc = "pause_clear"
    /\ Goto(IF hop = "view_update" THEN "update_scene" ELSE "update_view")
    /\ StepFrame
    /\ UNCHANGED <<life, session, orphans, history, preview_renderer,
                   log_targets, added, trace>>

\* Mutant: a pause tears the session down as a stop does.
PauseClear_ClearsSession ==
    /\ hpc = "pause_clear"
    /\ LET e == heng
       IN /\ Dropped(e) <= MaxOrphans
          /\ orphans' = [orphans EXCEPT ![e] = Dropped(e)]
          /\ render_thread' = [render_thread EXCEPT ![e] = NONE]
          /\ renderer' = [renderer EXCEPT ![e] = NONE]
          /\ renderer_controller' = [renderer_controller EXCEPT ![e] = NONE]
          /\ tile_callback' = [tile_callback EXCEPT ![e] = NONE]
    /\ Goto(IF hop = "view_update" THEN "update_scene" ELSE "update_view")
    /\ StepFrame
    /\ UNCHANGED <<life, interactive_scene_translator, history, preview_renderer,
                   log_targets, added, trace>>

\* __pause_rendering: `self.__render_thread = None`, and the return to
\* view_update or view_draw.
PauseClear ==
    /\ hpc = "pause_clear"
    /\ LET e == heng
       IN /\ Dropped(e) <= MaxOrphans
          /\ orphans' = [orphans EXCEPT ![e] = Dropped(e)]
          /\ render_thread' = [render_thread EXCEPT ![e] = NONE]
    /\ Goto(IF hop = "view_update" THEN "update_scene" ELSE "update_view")
    /\ StepFrame
    /\ UNCHANGED <<life, renderer, renderer_controller, tile_callback,
                   interactive_scene_translator, history, preview_renderer,
                   log_targets, added, trace>>

\* The try block of __pause_rendering and __stop_rendering when
\* controller.set_status(AbortRendering) raises: join() is skipped and
\* `except: pass` swallows the exception.
SignalAbortRaises(e, after_pc) ==
    /\ render_thread[e] # NONE
    /\ renderer_controller[e] # NONE
    /\ Emit(<<"set_status(AbortRendering) raises">>)
    /\ Goto(after_pc)

\* Mutant: without the `except: pass`, the exception of join() leaves the
\* callback.
JoinRaises_Propagates(after_pc) ==
    /\ Emit(<<"join raises">>)
    /\ Raise("RuntimeError")

\* The try block when self.__render_thread.join() raises: the thread may
\* still be alive, and `except: pass` swallows the exception.
JoinRaises(after_pc) ==
    /\ Emit(<<"join raises">>)
    /\ Goto(after_pc)

\* __stop_rendering: set_status raises
StopSignalFails ==
    /\ hpc = "stop_rendering"
    /\ SignalAbortRaises(heng, "stop_cleanup")
    /\ StepFrame
    /\ UNCHANGED <<life, session, orphans, history, preview_renderer, log_targets,
                   added>>

\* __stop_rendering: join raises
StopJoinFails ==
    /\ hpc = "stop_join"
    /\ JoinRaises("stop_cleanup")
    /\ StepFrame
    /\ UNCHANGED <<life, session, orphans, history, preview_renderer, log_targets,
                   added>>

\* __pause_rendering: set_status raises
PauseSignalFails ==
    /\ hpc = "pause_rendering"
    /\ SignalAbortRaises(heng, "pause_clear")
    /\ StepFrame
    /\ UNCHANGED <<life, session, orphans, history, preview_renderer, log_targets,
                   added>>

\* __pause_rendering: join raises
PauseJoinFails ==
    /\ hpc = "pause_join"
    /\ JoinRaises("pause_clear")
    /\ StepFrame
    /\ UNCHANGED <<life, session, orphans, history, preview_renderer, log_targets,
                   added>>

\* Mutant: an update of a started session is applied without pausing.
ViewUpdate_NoPause ==
    /\ hpc = "view_update"
    /\ Goto(IF interactive_scene_translator[heng] = NONE
            THEN "start_interactive_render"
            ELSE "update_scene")
    /\ StepFrame
    /\ UNCHANGED <<life, session, orphans, history, preview_renderer, log_targets,
                   added, trace>>

\* view_update(self, context): the test of the translator
ViewUpdate ==
    /\ hpc = "view_update"
    /\ Goto(IF interactive_scene_translator[heng] = NONE
            THEN "start_interactive_render"
            ELSE "pause_rendering")
    /\ StepFrame
    /\ UNCHANGED <<life, session, orphans, history, preview_renderer, log_targets,
                   added, trace>>

\* Mutant: an update translates the whole scene again.
UpdateScene_Retranslates ==
    /\ hpc = "update_scene"
    /\ made' = [made EXCEPT ![heng].translate_scene = @ + 1]
    /\ Emit(<<"translate_scene">>)
    /\ Goto("restart_interactive_render")
    /\ StepFrame
    /\ UNCHANGED <<life, session, orphans, preview_calls, preview_renderer,
                   log_targets, added>>

\* view_update: self.__interactive_scene_translator.update_scene(context.scene, context)
\* (the translator's own state is not part of this module of the program: the
\* call shows in the trace)
UpdateScene ==
    /\ hpc = "update_scene"
    /\ Emit(<<"update_scene">>)
    /\ Goto("restart_interactive_render")
    /\ StepFrame
    /\ UNCHANGED <<life, session, orphans, history, preview_renderer, log_targets,
                   added>>

\* view_update when update_scene raises: the session stays paused.
UpdateSceneFails ==
    /\ hpc = "update_scene"
    /\ Emit(<<"update_scene raises">>)
    /\ Raise("TranslationError")
    /\ StepFrame
    /\ UNCHANGED <<life, session, orphans, history, preview_renderer, log_targets,
                   added>>

\* The five assertions opening __start_interactive_render.
InteractivePreconditions(e) ==
    /\ interactive_scene_translator[e] = NONE
    /\ renderer[e] = NONE
    /\ renderer_controller[e] = NONE
    /\ tile_callback[e] = NONE
    /\ render_thread[e] = NONE

\* __start_interactive_render(self, context), up to the call of
\* __restart_interactive_render
StartInteractiveRender ==
    /\ hpc = "start_interactive_render"
    /\ LET e == heng
       IN IF ~InteractivePreconditions(e)
          THEN /\ Raise("AssertionError")
               /\ UNCHANGED <<session, made, trace>>
          ELSE /\ interactive_scene_translator' =
                      [interactive_scene_translator EXCEPT ![e] =
                          [kind |-> "SceneTranslator"]]
               /\ renderer_controller' = [renderer_controller EXCEPT ![e] =
                      [kind |-> "InteractiveRendererController", status |-> "Initial"]]
               /\ tile_callback' = [tile_callback EXCEPT ![e] =
                      [kind |-> "BlenderProgressiveTileCallback"]]
               /\ renderer' = [renderer EXCEPT ![e] =
                      [kind |-> "MasterRenderer", config |-> "interactive",
                       id |-> made[e].renderer + 1]]
               /\ made' = [made EXCEPT ![e].translator = @ + 1,
                                       ![e].translate_scene = @ + 1,
                                       ![e].controller = @ + 1,
                                       ![e].tile_callback = @ + 1,
                                       ![e].renderer = @ + 1]
               /\ Emit(<<"create_interactive_render_translator", "translate_scene",
                         "InteractiveRendererController",
                         "BlenderProgressiveTileCallback", "MasterRenderer">>)
               /\ Goto("restart_interactive_render")
               /\ UNCHANGED render_thread
    /\ StepFrame
    /\ UNCHANGED <<life, orphans, preview_renderer, preview_calls, log_targets, added>>

\* __start_interactive_render when translate_scene raises: the translator is
\* already assigned, the session objects are not created.
TranslateSceneFails ==
    /\ hpc = "start_interactive_render"
    /\ InteractivePreconditions(heng)
    /\ LET e == heng
       IN /\ interactive_scene_translator' =
                 [interactive_scene_translator EXCEPT ![e] =
                     [kind |-> "SceneTranslator"]]
          /\ made' = [made EXCEPT ![e].translator = @ + 1,
                                  ![e].translate_scene = @ + 1]
    /\ Emit(<<"create_interactive_render_translator", "translate_scene raises">>)
    /\ Raise("TranslationError")
    /\ StepFrame
    /\ UNCHANGED <<life, renderer, renderer_controller, tile_callback,
                   render_thread, orphans, preview_renderer, preview_calls,
                   log_targets, added>>

\* Mutant: the thread is started before the controller is told to continue.
RestartCalls_StartsFirst ==
    <<"RenderThread", "thread.start", "set_status(ContinueRendering)">>

\* The calls of __restart_interactive_render, in the order of the code.
RestartCalls ==
    <<"set_status(ContinueRendering)", "RenderThread", "thread.start">>

\* Mutant: the restart waits for the thread it started.
RestartInteractiveRender_Waits ==
    /\ hpc = "restart_interactive_render"
    /\ LET e == heng
       IN IF renderer_controller[e] = NONE
          THEN /\ Raise("AttributeError")
               /\ UNCHANGED <<renderer_controller, render_thread, orphans, trace>>
          ELSE /\ renderer_controller' = [renderer_controller EXCEPT ![e].status =
                      "ContinueRendering"]
               /\ Dropped(e) <= MaxOrphans
               /\ orphans' = [orphans EXCEPT ![e] = Dropped(e)]
               /\ render_thread' = [render_thread EXCEPT ![e] =
                      [kind |-> "RenderThread", renderer |-> renderer[e],
                       alive |-> FALSE]]
               /\ Emit(<<"set_status(ContinueRendering)", "RenderThread",
                         "thread.start", "join">>)
               /\ IF hop = "view_draw" THEN Goto("draw") ELSE Return
    /\ StepFrame
    /\ UNCHANGED <<life, renderer, tile_callback, interactive_scene_translator,
                   history, preview_renderer, log_targets, added>>

\* __restart_interactive_render(self), and the return to its caller
RestartInteractiveRender ==
    /\ hpc = "restart_interactive_render"
    /\ LET e == heng
       IN IF renderer_controller[e] = NONE
          THEN /\ Raise("AttributeError")
               /\ UNCHANGED <<renderer_controller, render_thread, orphans, trace>>
          ELSE /\ renderer_controller' = [renderer_controller EXCEPT ![e].status =
                      "ContinueRendering"]
               /\ Dropped(e) <= MaxOrphans
               /\ orphans' = [orphans EXCEPT ![e] = Dropped(e)]
               /\ render_thread' = [render_thread EXCEPT ![e] =
                      [kind |-> "RenderThread", renderer |-> renderer[e],
                       alive |-> TRUE]]
               /\ Emit(RestartCalls)
               /\ IF hop = "view_draw" THEN Goto("draw") ELSE Return
    /\ StepFrame
    /\ UNCHANGED <<life, renderer, tile_callback, interactive_scene_translator,
                   history, preview_renderer, log_targets, added>>

\* Mutant: only a changed view, not a changed camera, pauses the session.
ViewDraw_IgnoresCamera ==
    /\ hpc = "view_draw"
    /\ IF interactive_scene_translator[heng] = NONE
       THEN Raise("AttributeError") /\ UNCHANGED trace
       ELSE /\ Emit(<<"check_view">>)
            /\ Goto(IF harg.view_update THEN "pause_rendering" ELSE "draw")
    /\ StepFrame
    /\ UNCHANGED <<life, session, orphans, history, preview_renderer, log_targets,
                   added>>

\* view_draw(self, context): check_view and the test of its result
ViewDraw ==
    /\ hpc = "view_draw"
    /\ IF interactive_scene_translator[heng] = NONE
       THEN Raise("AttributeError") /\ UNCHANGED trace
       ELSE /\ Emit(<<"check_view">>)
            /\ Goto(IF harg.view_update \/ harg.camera_update
                    THEN "pause_rendering"
                    ELSE "draw")
    /\ StepFrame
    /\ UNCHANGED <<life, session, orphans, history, preview_renderer, log_targets,
                   added>>

\* view_draw: self.__interactive_scene_translator.update_view(view_update, camera_update)
UpdateView ==
    /\ hpc = "update_view"
    /\ Emit(<<"update_view">>)
    /\ Goto("restart_interactive_render")
    /\ StepFrame
    /\ UNCHANGED <<life, session, orphans, history, preview_renderer, log_targets,
                   added>>

\* view_draw: bind_display_space_shader, draw_pixels, unbind_display_space_shader
Draw ==
    /\ hpc = "draw"
    /\ IF tile_callback[heng] = NONE
       THEN /\ Emit(<<"bind_display_space_shader">>)
            /\ Raise("AttributeError")
       ELSE /\ Emit(<<"bind_display_space_shader",
                      "draw_pixels(0, 0, width, height)",
                      "unbind_display_space_shader">>)
            /\ Return
    /\ StepFrame
    /\ UNCHANGED <<life, session, orphans, history, preview_renderer, log_targets,
                   added>>

\* ------------------------------------------------- the material schemas
\* An operation of the material properties has run to its end in one step.
Done(op, calls) ==
    /\ hpc = "idle"
    /\ hop' = op
    /\ heng' = 1
    /\ hpc' = "returned"
    /\ harg' = NoArg
    /\ result' = "ok"
    /\ trace' = calls
    /\ entry' = NoEntry
    /\ UNCHANGED <<engine, jobs>>

\* sequence s without its elements equal to x
Without(s, x) == SelectSeq(s, LAMBDA y : y # x)

\* register()
Register ==
    /\ classes = << >>
    /\ material_appleseed = NONE
    /\ classes' = Append(Append(classes, "AppleseedMatLayerProps"),
                         "AppleseedMatProps")
    /\ material_appleseed' = [kind |-> "PointerProperty", type |-> "AppleseedMatProps"]
    /\ Done("register", <<"register_class(AppleseedMatLayerProps)",
                          "register_class(AppleseedMatProps)",
                          "Material.appleseed = PointerProperty">>)
    /\ UNCHANGED <<prop, stored, assigned, context, preview_render_type,
                   texture_type>>

\* unregister()
Unregister ==
    /\ material_appleseed # NONE
    /\ material_appleseed' = NONE
    /\ classes' = Without(Without(classes, "AppleseedMatLayerProps"),
                          "AppleseedMatProps")
    /\ Done("unregister", <<"del Material.appleseed",
                            "unregister_class(AppleseedMatLayerProps)",
                            "unregister_class(AppleseedMatProps)">>)
    /\ UNCHANGED <<prop, stored, assigned, context, preview_render_type,
                   texture_type>>

\* Mutant: no property has an update hook.
Edit_NoHook(v, ctx) ==
    /\ material_appleseed # NONE
    /\ prop.decl.type = "IntProperty" => v % 100 = 0
    /\ stored' = Store(prop.decl, v)
    /\ assigned' = v
    /\ context' = ctx
    /\ Done("edit", << >>)
    /\ UNCHANGED <<classes, material_appleseed, prop, preview_render_type,
                   texture_type>>

\* The host assigns v to the property of a material that is followed, in a
\* context ctx: the value is stored within the hard limits of the
\* declaration, and the update hook of the declaration is called.
Edit(v, ctx) ==
    /\ material_appleseed # NONE
    /\ prop.decl.type = "IntProperty" => v % 100 = 0
    /\ stored' = Store(prop.decl, v)
    /\ assigned' = v
    /\ context' = ctx
    /\ IF prop.decl.update = "refresh_preview"
       THEN LET writes == refresh_preview(ctx, preview_render_type, texture_type)
            IN /\ preview_render_type' =
                      Written("material.preview_render_type", PreviewRenderTypes,
                              writes, preview_render_type)
               /\ texture_type' =
                      Written("texture.type", TextureTypes, writes, texture_type)
               /\ Done("edit", <<"refresh_preview">> \o writes)
       ELSE /\ Done("edit", << >>)
            /\ UNCHANGED <<preview_render_type, texture_type>>
    /\ UNCHANGED <<classes, material_appleseed, prop>>

\* ------------------------------------------------------------ the worker
\* RenderThread.run: renderer.render() returns in the thread the handle of e
\* refers to.
WorkerReturn(e) ==
    /\ isAlive(e)
    /\ render_thread' = [render_thread EXCEPT ![e].alive = FALSE]
    /\ UNCHANGED <<life, renderer, renderer_controller, tile_callback,
                   interactive_scene_translator, orphans, history,
                   preview_renderer, log_targets, background, materials, jobs,
                   aov_flags, passes,
                   host>>

\* RenderThread.run: renderer.render() returns in a thread no handle refers to.
OrphanReturn(e) ==
    /\ orphans[e] > 0
    /\ orphans' = [orphans EXCEPT ![e] = @ - 1]
    /\ UNCHANGED <<life, session, history, preview_renderer, log_targets,
                   background, materials, jobs, aov_flags, passes, host>>

\* ------------------------------------------ overlapping preview renders
\* __render_material_preview statement by statement, for engine instances
\* whose preview renders the host runs in jobs of their own.  The statements
\* take no lock, so the steps of different jobs interleave freely.

JobFrame ==
    UNCHANGED <<life, session, orphans, made, log_targets, background,
                aov_flags, passes, host, materials>>

\* render() of a preview reaches __render_material_preview.
JobBegin(e) ==
    /\ life[e] = "live"
    /\ tpc[e] = "idle"
    /\ tpc' = [tpc EXCEPT ![e] = "test"]
    /\ UNCHANGED <<preview_renderer, preview_calls, calling>>
    /\ JobFrame

\* `if not _preview_renderer:`
JobTest(e) ==
    /\ tpc[e] = "test"
    /\ tpc' = [tpc EXCEPT ![e] = IF preview_renderer = NONE
                                 THEN "PreviewRenderer"
                                 ELSE "update_preview"]
    /\ UNCHANGED <<preview_renderer, preview_calls, calling>>
    /\ JobFrame

\* `_preview_renderer = PreviewRenderer()`
JobConstruct(e) ==
    /\ tpc[e] = "PreviewRenderer"
    /\ preview_renderer' = [kind |-> "PreviewRenderer"]
    /\ preview_calls' = [preview_calls EXCEPT !.ctor = @ + 1]
    /\ tpc' = [tpc EXCEPT ![e] = "translate_preview"]
    /\ UNCHANGED calling
    /\ JobFrame

\* `_preview_renderer.translate_preview(scene)` or
\* `_preview_renderer.update_preview(scene)` is entered.
JobCall(e) ==
    /\ tpc[e] \in {"translate_preview", "update_preview"}
    /\ calling' = [calling EXCEPT ![e] = tpc[e]]
    /\ preview_calls' = IF tpc[e] = "translate_preview"
                        THEN [preview_calls EXCEPT !.translate_preview = @ + 1]
                        ELSE preview_calls
    /\ tpc' = [tpc EXCEPT ![e] = "in_call"]
    /\ UNCHANGED preview_renderer
    /\ JobFrame

\* The call returns.
JobReturn(e) ==
    /\ tpc[e] = "in_call"
    /\ calling' = [calling EXCEPT ![e] = "none"]
    /\ tpc' = [tpc EXCEPT ![e] = "as_project"]
    /\ preview_calls' = IF calling[e] = "translate_preview"
                        THEN [preview_calls EXCEPT !.translated = @ + 1]
                        ELSE preview_calls
    /\ UNCHANGED preview_renderer
    /\ JobFrame

\* `project = _preview_renderer.as_project`; the job goes on to
\* __start_final_render on its own engine instance.
JobProject(e) ==
    /\ tpc[e] = "as_project"
    /\ tpc' = [tpc EXCEPT ![e] = "idle"]
    /\ UNCHANGED <<preview_renderer, preview_calls, calling>>
    /\ JobFrame

\* ------------------------------------------------------- specifications
HostCall ==
    \E e \in Engines :
        \/ Create(e)
        \/ \E p \in BOOLEAN, flags \in SceneChoices : CallRender(e, p, flags)
        \/ CallViewUpdate(e)
        \/ \E vu, cu \in BOOLEAN : CallViewDraw(e, vu, cu)
        \/ CallDel(e)

HostStep ==
    \/ Render
    \/ RenderMaterialPreview
    \/ RenderFinal
    \/ StartFinalRender
    \/ PollExit
    \/ StopSignal
    \/ StopJoin
    \/ StopCleanup
    \/ PauseSignal
    \/ PauseJoin
    \/ PauseClear
    \/ ViewUpdate
    \/ UpdateScene
    \/ StartInteractiveRender
    \/ RestartInteractiveRender
    \/ ViewDraw
    \/ UpdateView
    \/ Draw
    \/ Resume

Worker == \E e \in Engines : WorkerReturn(e)

Next == HostCall \/ HostStep \/ Worker

Spec == Init /\ [][Next]_vars

\* The engine with a collaborator that can fail: the MasterRenderer
\* constructor may raise.
FaultNext == Next \/ StartFinalRenderFails

FaultSpec == Init /\ [][FaultNext]_vars

\* One engine instance at a time, with every collaborator able to fail:
\* set_status, join, the constructors and the translators may raise.
InstanceCall ==
    \/ Create(1)
    \/ \E p \in BOOLEAN, flags \in SceneChoices : CallRender(1, p, flags)
    \/ CallViewUpdate(1)
    \/ \E vu, cu \in BOOLEAN : CallViewDraw(1, vu, cu)
    \/ CallDel(1)

Fault ==
    \/ TranslatePreviewFails
    \/ StartFinalRenderFails
    \/ TranslateSceneFails
    \/ UpdateSceneFails
    \/ StopSignalFails
    \/ StopJoinFails
    \/ PauseSignalFails
    \/ PauseJoinFails

\* A thread whose handle was dropped while it was alive returns.
Orphan == OrphanReturn(1)

InstanceNext == InstanceCall \/ HostStep \/ WorkerReturn(1) \/ Fault \/ Orphan

InstanceSpec == Init /\ [][InstanceNext]_vars

\* RenderThread.run is inside renderer.render() and the controller of its
\* renderer says AbortRendering.
Aborted(e) ==
    /\ isAlive(e)
    /\ renderer_controller[e] # NONE
    /\ renderer_controller[e].status = "AbortRendering"

\* RenderThread.run is inside renderer.render() of a final configuration,
\* which renders one frame.
RendersFrame(e) ==
    /\ isAlive(e)
    /\ render_thread[e].renderer # NONE
    /\ render_thread[e].renderer.config = "final"

\* Mutant: a renderer that need not honour AbortRendering.
HonoursAbort_Never == TRUE

\* The renderer honours AbortRendering: render() returns once the controller
\* says so.
HonoursAbort == WF_vars(Aborted(1) /\ WorkerReturn(1))

\* render() of a final configuration returns: the frame is finished, or the
\* controller has reported the host's cancellation.
FrameEnds == WF_vars(RendersFrame(1) /\ WorkerReturn(1))

\* One engine instance, the host thread running each callback on to its end,
\* and a renderer that honours AbortRendering.
LiveNext == InstanceCall \/ HostStep \/ WorkerReturn(1)

\* Engine instances whose preview renders overlap.
RaceInit == InitCommon /\ background = FALSE

RaceNext ==
    \E e \in Engines :
        \/ Create(e)
        \/ JobBegin(e)
        \/ JobTest(e)
        \/ JobConstruct(e)
        \/ JobCall(e)
        \/ JobReturn(e)
        \/ JobProject(e)

RaceSpec == RaceInit /\ [][RaceNext]_vars

LiveSpec ==
    /\ Init
    /\ [][LiveNext]_vars
    /\ WF_vars(HostStep)
    /\ HonoursAbort

\* The material properties alone: the add-on is enabled and disabled, and
\* one property of a material, any of the two schemas, is assigned to.
MatInit ==
    /\ InitEngine
    /\ background = FALSE
    /\ classes = << >>
    /\ material_appleseed = NONE
    /\ prop \in Properties
    /\ stored = Default(prop.decl)
    /\ assigned = stored
    /\ context = NoContext
    /\ preview_render_type \in PreviewRenderTypes
    /\ texture_type \in TextureTypes

MatNext ==
    \/ Register
    \/ Unregister
    \/ \E v \in EditValues, ctx \in Contexts : Edit(v, ctx)
    \/ Resume

MatSpec == MatInit /\ [][MatNext]_vars

\* The render pass tables alone: one engine, every combination of the AOV
\* flags, both values of is_preview.
PassInit == InitCommon /\ background = FALSE

PassNext ==
    \/ Create(1)
    \/ /\ hpc = "idle"
       /\ \E p \in BOOLEAN, flags \in SUBSET AOVFlags : UpdateRenderPasses(1, p, flags)
    \/ /\ hpc = "idle"
       /\ \E flags \in SUBSET AOVFlags : AddRenderPasses(1, flags)
    \/ Resume

PassSpec == PassInit /\ [][PassNext]_vars


\* ============================================================ properties
\* The four session fields of engine e.
Fields(e) ==
    <<renderer[e], renderer_controller[e], tile_callback[e], render_thread[e]>>

\* The four session fields of the engine when the callback was entered.
EntryFields ==
    <<entry.renderer, entry.renderer_controller, entry.tile_callback,
      entry.render_thread>>

AllNone == <<NONE, NONE, NONE, NONE>>

\* A snapshot without the liveness of the thread its handle refers to: the
\* objects the fields refer to.
Objects(snap) ==
    [snap EXCEPT !.render_thread =
        IF @ = NONE THEN NONE ELSE [@ EXCEPT !.alive = FALSE]]

\* The positions of the host thread after the polling loop of a final render.
AfterPoll == {"stop_rendering", "stop_join", "stop_cleanup", "returned"}

\* s is a prefix of t.
IsPrefix(s, t) == Len(s) <= Len(t) /\ SubSeq(t, 1, Len(s)) = s

\* Event a occurs in sequence t, and event b only after its first occurrence.
Precedes(a, b, t) ==
    \E i \in 1..Len(t) :
        /\ t[i] = a
        /\ \A j \in 1..i : t[j] # b

\* ---------------------------------------------------------------------
\* C1: when the host thread leaves the entry of __start_final_render with
\* any of renderer, controller, tile callback or thread set, the call ends
\* with an assertion error and nothing has happened: the session fields and
\* the translator are the same, no thread was started, no log target was
\* attached and no call was made.
C1_RejectsPopulatedSession ==
    [][ ( /\ hpc = "start_final_render"
          /\ hpc' # "start_final_render"
          /\ Fields(heng) # AllNone )
        => ( /\ hpc' = "returned"
             /\ result' = "AssertionError"
             /\ Fields(heng)' = Fields(heng)
             /\ interactive_scene_translator' = interactive_scene_translator
             /\ AliveThreads(heng)' = AliveThreads(heng)
             /\ log_targets' = log_targets
             /\ made' = made
             /\ trace' = trace ) ]_vars

\* A render() on an engine with a running interactive session was rejected.
C1_Witness ==
    /\ hop = "render"
    /\ hpc = "returned"
    /\ result = "AssertionError"
    /\ entry.renderer # NONE
    /\ entry.renderer.config = "interactive"
    /\ Fields(heng) # AllNone

\* ---------------------------------------------------------------------
\* C2: a final render entered on an Idle engine (all four session fields
\* None) never fails its preconditions, waits on a thread it started, and
\* when it has returned the four session fields are None again; this is so
\* for the first render of the engine and for every later one.
C2_FinalRenderReturnsToIdle ==
    (hop = "render" /\ EntryFields = AllNone) =>
        /\ result # "AssertionError"
        /\ hpc \in {"poll", "stop_rendering", "stop_join"} => render_thread[heng] # NONE
        /\ hpc = "returned" => (result = "ok" /\ Fields(heng) = AllNone)

\* A final render completed on an engine that had completed one before.
C2_Witness ==
    /\ hop = "render"
    /\ hpc = "returned"
    /\ result = "ok"
    /\ ~harg.is_preview
    /\ entry.made.renderer >= 1
    /\ made[heng].renderer = entry.made.renderer + 1
    /\ Fields(heng) = AllNone

\* ---------------------------------------------------------------------
PauseUpdateRestart(update) ==
    <<"set_status(AbortRendering)", "join", update,
      "set_status(ContinueRendering)", "RenderThread", "thread.start">>

\* C3: a view_update on a started session makes exactly the calls abort,
\* join, update_scene, continue, start in this order, a view_draw whose view
\* or camera changed makes abort, join, update_view, continue, start after
\* check_view and before painting, and whenever the host thread is about to
\* call update_scene or update_view no thread of that engine is executing
\* renderer.render().
C3_UpdateOnlyWhilePaused ==
    /\ hpc \in {"update_scene", "update_view"} => AliveThreads(heng) = 0
    /\ (hop = "view_update" /\ hpc = "returned"
            /\ entry.interactive_scene_translator # NONE)
        => trace = PauseUpdateRestart("update_scene")
    /\ (hop = "view_draw" /\ hpc = "returned"
            /\ entry.interactive_scene_translator # NONE
            /\ (harg.view_update \/ harg.camera_update))
        => IsPrefix(<<"check_view">> \o PauseUpdateRestart("update_view"), trace)

\* The host thread is about to call update_view on a session whose thread
\* was running when view_draw was entered.
C3_Witness ==
    /\ hpc = "update_view"
    /\ entry.render_thread # NONE
    /\ entry.render_thread.alive
    /\ trace = <<"check_view", "set_status(AbortRendering)", "join">>

\* ---------------------------------------------------------------------
\* C4: at most one RenderThread created by an engine instance is executing
\* renderer.render() at any time.
C4_OneThreadPerEngine == \A e \in Engines : AliveThreads(e) <= 1

\* A session was restarted after a pause and its new thread is running.
C4_Witness ==
    /\ hop = "view_update"
    /\ hpc = "returned"
    /\ entry.render_thread # NONE
    /\ isAlive(heng)
    /\ AliveThreads(heng) = 1


\* ---------------------------------------------------------------------
\* The positions of the host thread in render() after the preview renderer
\* was created or updated.
AfterPreviewStep == {"start_final_render", "poll"} \cup AfterPoll

\* C5: over all preview renders of all engine instances of the process,
\* PreviewRenderer is constructed and translate_preview called at most once,
\* by the call that found no preview renderer; a call that found one calls
\* update_preview on it and neither constructs nor translates.
C5_PreviewSingleton ==
    /\ preview_calls.ctor <= 1
    /\ preview_calls.translate_preview <= 1
    /\ preview_renderer # NONE =>
           (preview_calls.ctor = 1 /\ preview_calls.translate_preview = 1)
    /\ (hop = "render" /\ harg.is_preview /\ ~background /\ hpc \in AfterPreviewStep)
        => IF entry.preview_renderer = NONE
           THEN /\ IsPrefix(<<"PreviewRenderer", "translate_preview">>, trace)
                /\ entry.preview_calls.ctor = 0
           ELSE /\ IsPrefix(<<"update_preview">>, trace)
                /\ preview_renderer = entry.preview_renderer
                /\ preview_calls = entry.preview_calls
                /\ \A i \in 1..Len(trace) :
                       trace[i] \notin {"PreviewRenderer", "translate_preview"}

\* A preview render of the second engine instance has completed on the
\* preview renderer that an earlier call created.
C5_Witness ==
    /\ hop = "render"
    /\ hpc = "returned"
    /\ result = "ok"
    /\ harg.is_preview
    /\ heng = 2
    /\ made[2].renderer = 1
    /\ entry.preview_renderer # NONE
    /\ trace[1] = "update_preview"

\* ---------------------------------------------------------------------
StartInteractive ==
    <<"create_interactive_render_translator", "translate_scene",
      "InteractiveRendererController", "BlenderProgressiveTileCallback",
      "MasterRenderer", "set_status(ContinueRendering)", "RenderThread",
      "thread.start">>

\* C6: the view_update that finds no translator creates it, translates the
\* scene once and starts the session; every view_update that finds a
\* translator pauses, calls update_scene and restarts, and constructs
\* nothing: the translator, renderer, controller and tile callback are the
\* objects of the session start and translate_scene was called once.
C6_TranslateOnceThenUpdate ==
    /\ \A e \in Engines : made[e].translator <= 1 /\ made[e].translate_scene <= 1
    /\ (hop = "view_update" /\ hpc = "returned")
        => IF entry.interactive_scene_translator = NONE
           THEN /\ result = "ok"
                /\ trace = StartInteractive
                /\ made[heng].translator = 1
                /\ made[heng].translate_scene = 1
                /\ interactive_scene_translator[heng] # NONE
                /\ isAlive(heng) \/ render_thread[heng] # NONE
           ELSE /\ result = "ok"
                /\ trace = PauseUpdateRestart("update_scene")
                /\ made[heng] = entry.made
                /\ interactive_scene_translator[heng] = entry.interactive_scene_translator
                /\ renderer[heng] = entry.renderer
                /\ renderer_controller[heng].kind = entry.renderer_controller.kind
                /\ tile_callback[heng] = entry.tile_callback

\* A later view_update has returned.
C6_Witness ==
    /\ hop = "view_update"
    /\ hpc = "returned"
    /\ entry.interactive_scene_translator # NONE
    /\ "update_scene" \in {trace[i] : i \in 1..Len(trace)}
    /\ made[heng].translate_scene = 1

\* ---------------------------------------------------------------------
\* C7: in render(), a non-preview call adds one pass per enabled AOV before
\* anything else and then translates the scene and starts the final render;
\* a preview call in the foreground adds no pass and takes the preview
\* path; a preview call in background mode returns having called nothing
\* and changed nothing.
C7_RenderDispatch ==
    (hop = "render" /\ hpc # "render") =>
        IF ~harg.is_preview
        THEN /\ Len(added) = Cardinality(aov_flags)
             /\ {added[i].flag : i \in 1..Len(added)} = aov_flags
             /\ trace[1] = "add_render_passes"
             /\ hpc # "render_final" =>
                    IsPrefix(<<"add_render_passes", "create_final_render_translator",
                               "translate_scene">>, trace)
             /\ \A i \in 1..Len(trace) :
                    trace[i] \notin {"PreviewRenderer", "translate_preview",
                                     "update_preview"}
        ELSE IF ~background
        THEN /\ added = << >>
             /\ hpc # "render_material_preview" =>
                    trace[1] \in {"PreviewRenderer", "update_preview"}
             /\ \A i \in 1..Len(trace) :
                    trace[i] \notin {"add_render_passes", "translate_scene"}
        ELSE /\ hpc = "returned"
             /\ result = "ok"
             /\ added = << >>
             /\ trace = << >>
             /\ Objects(Snapshot(heng)) = Objects(entry)

\* A preview render() in background mode has returned on an engine whose
\* interactive session is running.
C7_Witness ==
    /\ hop = "render"
    /\ hpc = "returned"
    /\ harg.is_preview
    /\ background
    /\ renderer[heng] # NONE
    /\ preview_renderer = NONE

\* ---------------------------------------------------------------------
\* C8: once the host thread is past the polling loop of __start_final_render
\* (at the cleanup, in __stop_rendering, and back in the host) no thread of
\* that engine is executing renderer.render().
C8_ReturnsAfterWorker ==
    (hop = "render" /\ hpc \in AfterPoll /\ "thread.start" \in {trace[i] : i \in 1..Len(trace)})
        => AliveThreads(heng) = 0

\* The host thread has left the polling loop of a final render.
C8_Witness ==
    /\ hop = "render"
    /\ hpc = "stop_rendering"
    /\ render_thread[heng] # NONE
    /\ ~render_thread[heng].alive
    /\ trace[Len(trace)] = "remove_target"

ColourPass(name) == [name |-> name, channels |-> 4, chan_id |-> "RGBA", type |-> "COLOR"]
VectorPass(name) == [name |-> name, channels |-> 3, chan_id |-> "RGB", type |-> "VECTOR"]
ValuePass(name, chan_id) == [name |-> name, channels |-> 1, chan_id |-> chan_id, type |-> "VALUE"]

ExpectedPass(flag) ==
    CASE flag = "diffuse_aov" -> ColourPass("Diffuse")
      [] flag = "direct_diffuse_aov" -> ColourPass("Direct Diffuse")
      [] flag = "indirect_diffuse_aov" -> ColourPass("Indirect Diffuse")
      [] flag = "glossy_aov" -> ColourPass("Glossy")
      [] flag = "direct_glossy_aov" -> ColourPass("Direct Glossy")
      [] flag = "indirect_glossy_aov" -> ColourPass("Indirect Glossy")
      [] flag = "albedo_aov" -> ColourPass("Albedo")
      [] flag = "emission_aov" -> ColourPass("Emission")
      [] flag = "npr_shading_aov" -> ColourPass("NPR Shading")
      [] flag = "npr_contour_aov" -> ColourPass("NPR Contour")
      [] flag = "normal_aov" -> VectorPass("Normal")
      [] flag = "uv_aov" -> VectorPass("UV")
      [] flag = "depth_aov" -> ValuePass("Z Depth", "Z")
      [] flag = "pixel_time_aov" -> ValuePass("Pixel Time", "X")
      [] flag = "invalid_samples_aov" -> VectorPass("Invalid Samples")
      [] flag = "pixel_sample_count_aov" -> VectorPass("Pixel Sample Count")
      [] flag = "pixel_variation_aov" -> VectorPass("Pixel Variation")

\* What a register_pass call says of its pass.
Declared(p) ==
    [name |-> p.name, channels |-> p.channels, chan_id |-> p.chan_id, type |-> p.type]

\* C10: update_render_passes registers nothing for a preview render; for any
\* other render it registers Combined (4 channels, RGBA, COLOR) first, then
\* exactly one pass for each enabled AOV flag and none for a disabled one,
\* each with the name, channel count, layout and semantic of the table.
C10_RegisteredPasses ==
    (hop = "update_render_passes" /\ hpc = "returned") =>
        IF harg.is_preview
        THEN registered = << >>
        ELSE /\ Len(registered) = 1 + Cardinality(aov_flags)
             /\ Declared(registered[1]) = ColourPass("Combined")
             /\ {Declared(registered[i]) : i \in 2..Len(registered)}
                    = {ExpectedPass(f) : f \in aov_flags}

\* Every AOV was enabled and the eighteen passes were registered.
C10_Witness ==
    /\ hop = "update_render_passes"
    /\ hpc = "returned"
    /\ ~harg.is_preview
    /\ aov_flags = AOVFlags
    /\ Len(registered) = 18

\* ---------------------------------------------------------------------
\* What both call sites say of a pass: its flag, name, channel count and
\* channel layout.
PassKey(p) ==
    [flag |-> p.flag, name |-> p.name, channels |-> p.channels, chan_id |-> p.chan_id]

PassKeys(rows) == {PassKey(rows[i]) : i \in 1..Len(rows)}

\* C11: for every assignment of the AOV flags, the passes registered by
\* update_render_passes, Combined left out, are the passes added by
\* __add_render_passes: one pass per enabled flag at both call sites, with
\* the same name, channel count and channel layout.
C11_SamePassesAtBothSites ==
    /\ (hop = "update_render_passes" /\ hpc = "returned" /\ ~harg.is_preview) =>
           /\ PassKeys(Tail(registered)) = PassKeys(add_render_passes(aov_flags))
           /\ Len(Tail(registered)) = Len(add_render_passes(aov_flags))
    /\ (hop = "add_render_passes" /\ hpc = "returned") =>
           /\ PassKeys(added) = PassKeys(Tail(update_render_passes(FALSE, aov_flags)))
           /\ Len(added) = Len(Tail(update_render_passes(FALSE, aov_flags)))
           /\ Cardinality(PassKeys(added)) = Cardinality(aov_flags)

\* Every AOV was enabled and the seventeen passes were added.
C11_Witness ==
    /\ hop = "add_render_passes"
    /\ hpc = "returned"
    /\ aov_flags = AOVFlags
    /\ Len(added) = 17

\* ---------------------------------------------------------------------
\* The calls that paint the viewport.
Paint ==
    <<"bind_display_space_shader", "draw_pixels(0, 0, width, height)",
      "unbind_display_space_shader">>

\* C12: a view_draw on a started interactive session paints exactly once,
\* bind, draw_pixels(0, 0, width, height), unbind in this order, whether or
\* not the view changed; pause, update_view, restart run before the paint
\* exactly when check_view reports a changed view or a changed camera; when
\* neither changed, the controller, the thread handle and the translator are
\* what they were when the call was entered.
C12_ViewDrawPaintsOnce ==
    (hop = "view_draw" /\ entry.interactive_scene_translator # NONE) =>
        LET changed == harg.view_update \/ harg.camera_update
        IN /\ hpc = "returned" =>
                /\ result = "ok"
                /\ trace = <<"check_view">>
                            \o (IF changed THEN PauseUpdateRestart("update_view")
                                           ELSE << >>)
                            \o Paint
           /\ hpc = "draw" => (changed <=> Len(trace) > 1)
           /\ ~changed =>
                /\ hpc \in {"view_draw", "draw", "returned"}
                /\ renderer_controller[heng] = entry.renderer_controller
                /\ Objects(Snapshot(heng)).render_thread = Objects(entry).render_thread
                /\ interactive_scene_translator[heng] = entry.interactive_scene_translator

\* A view_draw that found only the camera changed has paused, updated the
\* view, restarted and painted.
C12_Witness ==
    /\ hop = "view_draw"
    /\ hpc = "returned"
    /\ harg.camera_update
    /\ ~harg.view_update
    /\ entry.interactive_scene_translator # NONE
    /\ Len(trace) = 10

\* ---------------------------------------------------------------------
\* C13: __start_interactive_render goes on only with translator, renderer,
\* controller, tile callback and thread all None, and otherwise ends in an
\* assertion error with no field modified and no call made; the start does
\* not block: it returns to the host right after thread.start, with the
\* controller status ContinueRendering and the started thread running,
\* having neither joined nor polled it.
C13_InteractiveStartDoesNotBlock ==
    [][ /\ ( /\ hpc = "start_interactive_render"
             /\ hpc' # "start_interactive_render" )
           => IF InteractivePreconditions(heng)
              THEN /\ hpc' = "restart_interactive_render"
                   /\ result' = result
              ELSE /\ hpc' = "returned"
                   /\ result' = "AssertionError"
                   /\ session' = session
                   /\ made' = made
                   /\ trace' = trace
        /\ ( /\ hpc = "restart_interactive_render"
             /\ hpc' # "restart_interactive_render"
             /\ hop = "view_update"
             /\ entry.interactive_scene_translator = NONE )
           => /\ hpc' = "returned"
              /\ result' = "ok"
              /\ renderer_controller'[heng].status = "ContinueRendering"
              /\ isAlive(heng)'
              /\ AliveThreads(heng)' = 1
              /\ trace' = StartInteractive ]_vars

\* The first view_update of an engine that a failed final render left with
\* a controller has been rejected, while the thread that the first
\* view_update of another engine started is running.
C13_Witness ==
    /\ hop = "view_update"
    /\ hpc = "returned"
    /\ result = "AssertionError"
    /\ entry.interactive_scene_translator = NONE
    /\ entry.renderer_controller # NONE
    /\ trace = << >>
    /\ \E e \in Engines \ {heng} :
          /\ interactive_scene_translator[e] # NONE
          /\ made[e].renderer = 1
          /\ renderer_controller[e].status = "ContinueRendering"
          /\ isAlive(e)

\* ---------------------------------------------------------------------
\* The positions at which event a occurs in sequence t.
Positions(a, t) == {i \in 1..Len(t) : t[i] = a}

\* C14: the console log target is attached for the duration of a final
\* render and no longer: the number of attached targets is one between
\* add_target and remove_target of a running render() and zero at every
\* other moment; the target is attached before the thread is started, and
\* once it has been removed the thread of the render is not alive.
C14_LogTargetWhileRendering ==
    /\ log_targets = (IF hop = "render" /\ hpc = "poll" THEN 1 ELSE 0)
    /\ hop = "render" =>
          /\ Cardinality(Positions("add_target", trace)) <= 1
          /\ Cardinality(Positions("remove_target", trace))
                = (IF hpc \in AfterPoll /\ Positions("add_target", trace) # {}
                   THEN 1 ELSE 0)
          /\ \A i \in Positions("thread.start", trace) :
                 \E j \in Positions("add_target", trace) : j < i
          /\ \A i \in Positions("remove_target", trace) :
                 /\ \E j \in Positions("thread.start", trace) : j < i
                 /\ AliveThreads(heng) = 0
    /\ hop # "render" =>
          Positions("add_target", trace) \cup Positions("remove_target", trace) = {}

\* A final render has returned; it attached the log target and removed it.
C14_Witness ==
    /\ hop = "render"
    /\ hpc = "returned"
    /\ result = "ok"
    /\ Positions("add_target", trace) # {}
    /\ Positions("remove_target", trace) # {}
    /\ log_targets = 0

\* ---------------------------------------------------------------------
\* The positions of the host thread inside __pause_rendering and right
\* after its return.
InPause == {"pause_rendering", "pause_join", "pause_clear"}
AfterPause == {"update_scene", "update_view"}

\* Renderer, controller, tile callback and translator of the engine are
\* the objects they were when the callback was entered (the status of the
\* controller aside), and none has been constructed since.
SessionKept ==
    /\ renderer[heng] = entry.renderer
    /\ tile_callback[heng] = entry.tile_callback
    /\ interactive_scene_translator[heng] = entry.interactive_scene_translator
    /\ renderer_controller[heng] # NONE
    /\ renderer_controller[heng].kind = entry.renderer_controller.kind
    /\ made[heng] = entry.made

\* Field f of engine e goes from an object to None in the step.
Cleared(f, e) == f[e] # NONE /\ f'[e] = NONE

\* C20: __pause_rendering changes the thread handle and nothing else: while
\* it runs and when it has returned, renderer, controller, tile callback
\* and translator are the objects of before the call, and when it has
\* returned the thread handle is None; a renderer, controller or tile
\* callback is set to None only by the cleanup of __stop_rendering, which
\* runs at the end of render() and in __del__.
C20_PauseKeepsSession ==
    [][ /\ (hpc \in InPause \cup AfterPause => SessionKept)'
        /\ (hpc \in AfterPause => render_thread[heng] = NONE)'
        /\ \A e \in Engines :
              (Cleared(renderer, e) \/ Cleared(renderer_controller, e)
                   \/ Cleared(tile_callback, e))
              => /\ hpc = "stop_cleanup"
                 /\ heng = e
                 /\ hop \in {"render", "del"} ]_vars

\* __pause_rendering has returned to a view_update whose session had a thread
\* and a renderer.
C20_Witness ==
    /\ hop = "view_update"
    /\ hpc = "update_scene"
    /\ entry.render_thread # NONE
    /\ render_thread[heng] = NONE
    /\ renderer[heng] # NONE
    /\ renderer[heng] = entry.renderer

\* ---------------------------------------------------------------------
\* s in reverse order
Reverse(s) == [i \in 1..Len(s) |-> s[Len(s) + 1 - i]]

\* What undoes a call of register().
Undo(call) ==
    CASE call = "register_class(AppleseedMatLayerProps)" ->
             "unregister_class(AppleseedMatLayerProps)"
      [] call = "register_class(AppleseedMatProps)" ->
             "unregister_class(AppleseedMatProps)"
      [] call = "Material.appleseed = PointerProperty" ->
             "del Material.appleseed"

RegisterCalls ==
    <<"register_class(AppleseedMatLayerProps)", "register_class(AppleseedMatProps)",
      "Material.appleseed = PointerProperty">>

\* C15: register() registers the Layer schema, then the Aggregate schema,
\* then attaches Material.appleseed, and unregister() undoes these in the
\* reverse order: it detaches Material.appleseed, unregisters the Aggregate
\* schema, then the Layer schema.
C15_UnregisterReversesRegister ==
    /\ (hop = "register" /\ hpc = "returned") => trace = RegisterCalls
    /\ (hop = "unregister" /\ hpc = "returned") =>
           trace = [i \in 1..Len(RegisterCalls) |-> Undo(Reverse(RegisterCalls)[i])]

\* ---------------------------------------------------------------------
\* An assignment to the followed property has just been made.
Edited == hop = "edit" /\ hpc = "returned"

\* The followed property is the layers collection of the Aggregate schema.
IsLayers == prop.cls = "AppleseedMatProps" /\ prop.decl.name = "layers"

\* C16 as stated: every field of the Layer schema and of the Aggregate
\* schema, the layers collection included, has refresh_preview as its
\* on-change hook, so that every edit of a field calls refresh_preview.
C16_EveryFieldHooked ==
    /\ prop.decl.update = "refresh_preview"
    /\ Edited => (trace # << >> /\ trace[1] = "refresh_preview")

\* C16, amended: every field of the Layer schema and of the Aggregate schema
\* other than the layers collection has refresh_preview as its on-change
\* hook and every edit of such a field calls refresh_preview; the layers
\* collection is declared without a hook and a change of it calls nothing.
C16_EveryFieldButLayersHooked ==
    /\ prop.decl.update = (IF IsLayers THEN ABSENT ELSE "refresh_preview")
    /\ Edited => IF IsLayers
                 THEN trace = << >>
                 ELSE trace # << >> /\ trace[1] = "refresh_preview"

\* layer_index of the Aggregate schema was assigned to and refresh_preview
\* was called.
C16_Witness ==
    /\ Edited
    /\ prop.cls = "AppleseedMatProps"
    /\ prop.decl.name = "layer_index"
    /\ trace # << >>
    /\ trace[1] = "refresh_preview"

\* ---------------------------------------------------------------------
\* C17: refresh_preview does not raise and changes no value: with a material
\* in the context it assigns material.preview_render_type the value it
\* holds, with a texture it assigns texture.type the value it holds, both
\* when both are there; an attribute that is missing or None is skipped;
\* preview_render_type and the texture type are after the call what they
\* were before.
C17_RefreshPreviewChangesNothing ==
    [][ ( /\ hpc = "idle"
          /\ hop' = "edit"
          /\ prop.decl.update = "refresh_preview" )
        => ( /\ result' = "ok"
             /\ preview_render_type' = preview_render_type
             /\ texture_type' = texture_type
             /\ trace' = <<"refresh_preview">>
                    \o (IF context'.material = "object"
                        THEN <<"material.preview_render_type = "
                                   \o preview_render_type>>
                        ELSE << >>)
                    \o (IF context'.texture = "object"
                        THEN <<"texture.type = " \o texture_type>>
                        ELSE << >>) ) ]_vars

\* refresh_preview ran in a context with a material and a texture and made
\* both assignments.
C17_Witness ==
    /\ Edited
    /\ context = [material |-> "object", texture |-> "object"]
    /\ trace = <<"refresh_preview",
                 "material.preview_render_type = " \o preview_render_type,
                 "texture.type = " \o texture_type>>

\* ---------------------------------------------------------------------
\* Clearcoat gloss, metallic, roughness, sheen, specular and subsurface of
\* the Disney BRDF.
DisneyScalars ==
    {"disney_brdf_clearcoat_gloss", "disney_brdf_metallic", "disney_brdf_roughness",
     "disney_brdf_sheen", "disney_brdf_spec", "disney_brdf_subsurface"}

IsDisneyScalar ==
    prop.cls = "AppleseedMatLayerProps" /\ prop.decl.name \in DisneyScalars

\* v brought to the nearest number of lo..hi
Nearest(v, lo, hi) == IF v < lo THEN lo ELSE IF v > hi THEN hi ELSE v

\* C18 as stated: after any sequence of edits the Disney scalars clearcoat
\* gloss, metallic, roughness, sheen, specular and subsurface are within
\* [0, 1], an edit to a value outside being clamped to the nearest bound.
C18_DisneyScalarsWithinUnit ==
    IsDisneyScalar =>
        /\ stored \in 0..100
        /\ Edited => stored = Nearest(assigned, 0, 100)

\* C18, amended: after any sequence of edits these six parameters are at
\* least 0, an edit to a value below 0 being clamped to 0; 1 is declared as
\* their soft maximum only, and an edit to a value above 1 is stored as it
\* is.
C18_DisneyScalarsNotNegative ==
    IsDisneyScalar =>
        /\ prop.decl.min = {0}
        /\ prop.decl.max = {}
        /\ prop.decl.soft_max = {100}
        /\ stored >= 0
        /\ Edited => stored = (IF assigned < 0 THEN 0 ELSE assigned)

\* Metallic was assigned 1.5 and holds 1.5.
C18_Witness ==
    /\ Edited
    /\ prop.decl.name = "disney_brdf_metallic"
    /\ assigned = 150
    /\ stored = 150

\* ---------------------------------------------------------------------
\* The layer kinds.
Kinds == {bsdf_type_items[i] : i \in 1..Len(bsdf_type_items)}

\* The declarations of the Layer schema that are named name.
LayerFields(name) ==
    {AppleseedMatLayerProps[i] : i \in
        {j \in 1..Len(AppleseedMatLayerProps) : AppleseedMatLayerProps[j].name = name}}

\* The followed property is the mixing weight of a layer kind.
IsWeight ==
    /\ prop.cls = "AppleseedMatLayerProps"
    /\ \E k \in Kinds : prop.decl.name = k \o "_weight"

\* C19: each of the 14 layer kinds has exactly one field <kind>_weight, a
\* number with default 1.0 and hard range [0.0, 1.0], exactly one boolean
\* <kind>_use_tex and exactly one reference <kind>_mix_tex; a weight is
\* within [0, 1] at all times, an assignment outside the range leaving it
\* at the nearest bound.
C19_MixingWeights ==
    /\ (hop = "register" /\ hpc = "returned") =>
          /\ Cardinality(Kinds) = 14
          /\ \A k \in Kinds :
                /\ LayerFields(k \o "_weight")
                      = {FloatProperty(k \o "_weight", {100}, {0}, {100}, {},
                                       "refresh_preview")}
                /\ LayerFields(k \o "_use_tex")
                      = {BoolProperty(k \o "_use_tex", "refresh_preview")}
                /\ LayerFields(k \o "_mix_tex")
                      = {StringProperty(k \o "_mix_tex", "refresh_preview")}
    /\ IsWeight =>
          /\ stored \in 0..100
          /\ Edited => stored = Nearest(assigned, 0, 100)

\* The weight of the Disney BRDF was assigned 1.5 and holds 1.0.
C19_Witness ==
    /\ Edited
    /\ prop.decl.name = "disney_brdf_weight"
    /\ assigned = 150
    /\ stored = 100

\* ---------------------------------------------------------------------
\* C21: __restart_interactive_render tells the controller to continue
\* before it starts the thread, constructs the RenderThread it starts, and
\* binds it to the renderer of the session, the one made at the session
\* start; a view_update or view_draw on a started session returns with the
\* renderer, controller and tile callback it was entered with.
C21_RestartKeepsSession ==
    [][ /\ ( /\ hpc = "restart_interactive_render"
             /\ hpc' # "restart_interactive_render" )
           => /\ trace' = trace \o <<"set_status(ContinueRendering)",
                                      "RenderThread", "thread.start">>
              /\ renderer_controller'[heng].status = "ContinueRendering"
              /\ render_thread'[heng] # NONE
              /\ render_thread'[heng].renderer = renderer[heng]
              /\ renderer'[heng] = renderer[heng]
              /\ renderer[heng].config = "interactive"
              /\ renderer[heng].id = made[heng].renderer
              /\ made' = made
        /\ ( /\ hop' \in {"view_update", "view_draw"}
             /\ hpc' = "returned"
             /\ entry'.interactive_scene_translator # NONE )
           => /\ renderer'[heng'] = entry'.renderer
              /\ tile_callback'[heng'] = entry'.tile_callback
              /\ renderer_controller'[heng'].kind = entry'.renderer_controller.kind
              /\ made'[heng'] = entry'.made ]_vars

\* A view_update has paused and restarted a session whose thread an earlier
\* restart had started, and the new thread runs the renderer of the session.
C21_Witness ==
    /\ hop = "view_update"
    /\ hpc = "returned"
    /\ entry.render_thread # NONE
    /\ entry.render_thread.renderer = entry.renderer
    /\ trace = PauseUpdateRestart("update_scene")
    /\ isAlive(heng)
    /\ render_thread[heng].renderer = entry.renderer

InStop == {"stop_rendering", "stop_join", "stop_cleanup"}

\* C22: __pause_rendering and __stop_rendering never propagate an exception
\* of set_status or join: whether these return or raise, the try block goes on
\* to the assignments, a pause returns to its caller with the thread handle
\* None, and a stop returns normally with the renderer, the controller, the
\* tile callback and the thread handle all None.
C22_TeardownSwallows ==
    [][ /\ hpc \in {"pause_rendering", "pause_join"}
           => hpc' \in InPause /\ result' = "running"
        /\ hpc \in {"stop_rendering", "stop_join"}
           => hpc' \in InStop /\ result' = "running"
        /\ hpc = "pause_clear" /\ hpc' # hpc
           => /\ hpc' \in AfterPause
              /\ result' = "running"
              /\ render_thread'[heng] = NONE
        /\ hpc = "stop_cleanup" /\ hpc' # hpc
           => /\ hpc' = "returned"
              /\ result' = "ok"
              /\ Fields(heng)' = AllNone ]_vars

\* __del__ on a running session where join() raised with the thread alive:
\* the callback has returned normally and the fields are None.
C22_Witness ==
    /\ hop = "del"
    /\ hpc = "returned"
    /\ result = "ok"
    /\ trace = <<"set_status(AbortRendering)", "join raises">>
    /\ entry.render_thread # NONE
    /\ Fields(heng) = AllNone
    /\ orphans[heng] = 1

\* C23: teardown is idempotent.  A __stop_rendering entered on an engine that
\* a stop has left (all four fields None) neither signals nor joins and leaves
\* every field as it is, so stopping twice is stopping once; a
\* __pause_rendering entered with the thread handle None sends no
\* AbortRendering, joins nothing and changes no field.
C23_TeardownIdempotent ==
    [][ /\ ( /\ hpc \in InStop /\ hpc' # hpc
             /\ Fields(heng) = AllNone )
           => /\ hpc' \in {"stop_cleanup", "returned"}
              /\ trace' = trace
              /\ Fields(heng)' = AllNone
              /\ UNCHANGED <<interactive_scene_translator, orphans, history,
                             preview_renderer, log_targets>>
        /\ ( /\ hpc \in InPause /\ hpc' # hpc
             /\ render_thread[heng] = NONE )
           => /\ hpc' \in {"pause_clear"} \cup AfterPause
              /\ trace' = trace
              /\ UNCHANGED <<session, orphans, history, preview_renderer,
                             log_targets>> ]_vars

\* __del__ on an engine whose final render has stopped the session: the second
\* stop has made no call.
C23_Witness ==
    /\ hop = "del"
    /\ hpc = "returned"
    /\ result = "ok"
    /\ entry.made.renderer > 0
    /\ <<entry.renderer, entry.renderer_controller, entry.tile_callback,
         entry.render_thread>> = AllNone
    /\ trace = << >>
    /\ Fields(heng) = AllNone

\* view_update on a started session whose thread handle is None: the pause
\* is over and has made no call.
C23_PausedTwice ==
    /\ hop = "view_update"
    /\ hpc = "update_scene"
    /\ entry.render_thread = NONE
    /\ entry.renderer # NONE
    /\ trace = << >>

\* The host thread is in a wait of the final render or in a teardown.
Blocked == {"poll"} \cup InStop \cup InPause

C25_PauseLeavesNoThread ==
    [][ (hpc = "pause_clear" /\ hpc' # hpc) => ~isAlive(heng) ]_vars

\* C26: whenever render, view_update or view_draw has returned or raised,
\* the renderer, the controller and the tile callback of the engine are all
\* None or all set, and a thread handle comes with a controller: no exception
\* leaves a session that is populated in part.
C26_SessionWhole ==
    (hpc = "returned" /\ hop \in {"render", "view_update", "view_draw"})
        => /\ \/ /\ renderer[heng] = NONE
                 /\ renderer_controller[heng] = NONE
                 /\ tile_callback[heng] = NONE
              \/ /\ renderer[heng] # NONE
                 /\ renderer_controller[heng] # NONE
                 /\ tile_callback[heng] # NONE
           /\ render_thread[heng] # NONE => renderer_controller[heng] # NONE

\* C27: however the preview renders of two engine instances overlap,
\* PreviewRenderer is constructed at most once and translate_preview is
\* called at most once in the process, and no update_preview is in progress
\* together with a translate_preview or with another update_preview.
C27_PreviewRaceFree ==
    /\ preview_calls.ctor <= 1
    /\ preview_calls.translate_preview <= 1
    /\ \A a, b \in Engines :
           (a # b /\ calling[a] = "update_preview") => calling[b] = "none"

\* C28: update_preview is called on the preview singleton only after a
\* translate_preview on it has returned; when the first translate_preview
\* has raised, no later preview render takes the update path.
C28_UpdateAfterTranslated ==
    (\E i \in 1..Len(trace) : trace[i] = "update_preview")
        => preview_calls.translated > 0

\* C29: every time __restart_interactive_render is entered the thread handle
\* is None: __start_interactive_render has asserted it, view_update and
\* view_draw have just run __pause_rendering.  A restart never overwrites the
\* handle of a thread.
C29_RestartFindsNoHandle ==
    hpc = "restart_interactive_render" => render_thread[heng] = NONE

\* view_draw has paused a running session, with set_status raising, and is
\* about to restart it: the handle is None.
C29_Witness ==
    /\ hop = "view_draw"
    /\ hpc = "restart_interactive_render"
    /\ entry.render_thread # NONE
    /\ trace = <<"check_view", "set_status(AbortRendering) raises", "update_view">>
    /\ render_thread[heng] = NONE

\* C30: the interactive scene translator of an engine instance, once set,
\* stays the same object for as long as the instance lives; pause, restart,
\* __stop_rendering and __del__ leave it alone, so the instance never again
\* meets the assertions of __start_interactive_render and no later
\* view_update takes the starting branch.
C30_TranslatorStays ==
    [][ \A e \in Engines :
           (interactive_scene_translator[e] # NONE /\ life[e] # "unborn")
              => /\ interactive_scene_translator'[e] = interactive_scene_translator[e]
                 /\ ~InteractivePreconditions(e)'
                 /\ (hpc' = "start_interactive_render" /\ heng' = e)
                       => hpc = "start_interactive_render" ]_vars

\* __del__ has stopped an interactive session: the fields are None, the
\* translator is the one the first view_update made.
C30_Witness ==
    /\ hop = "del"
    /\ hpc = "returned"
    /\ entry.renderer # NONE
    /\ Fields(heng) = AllNone
    /\ interactive_scene_translator[heng] # NONE
    /\ interactive_scene_translator[heng] = entry.interactive_scene_translator

====
